---------------------------- MODULE Spec2Model ----------------------------
(***************************************************************************)
(* Model of the long-text analysis pipeline of 05_text_analysis:           *)
(*   - LongTextAnalyzer._chunk_text   (long_text_analyzer.py)              *)
(*   - LongTextAnalyzer.analyze_text / InterviewAnalyzer.analyze_interview *)
(*     as the sequence of model calls one document's task issues           *)
(*   - BatchAnalyzer.analyze_single_file / process_files and main          *)
(*     (batch_analyzer.py) over a ThreadPoolExecutor                       *)
(*                                                                         *)
(* A text is a sequence of one-character strings over the alphabet Chars:  *)
(* "a" stands for any ordinary character, "." for a sentence terminator    *)
(* of the class [.!?], and "\n" for the newline, which is also the only    *)
(* whitespace character of the model.                                      *)
(***************************************************************************)
EXTENDS Integers, Sequences, FiniteSets, Bags, TLC

\* ------------------------------------------------------------------------
\* Bounds of the model
\* ------------------------------------------------------------------------

\* self.max_chunk_size (4000 in the source), scaled down so that bounded
\* texts contain paragraphs and sentences longer than one chunk.
max_chunk_size == 2

\* Longest input text the chunker specification draws.
MaxTextLen == 8

\* Most files one batch run finds.
MaxFiles == 2

\* Largest args.workers of a single run.
MaxWorkers == 2

\* The worker counts of the two runs that are compared.
WorkersA == 1

WorkersB == 4

\* The list caps of the source.
KeywordLimit == 20

TopicLimit == 8

\* The caps of the interview lists (insights[:7], quotes[:8], themes[:6]).
InsightLimit == 7
QuoteLimit == 8
ThemeLimit == 6

\* The longest answer, in lines, to a request for a list.
MaxLines == 10

\* speakers[:10]
SpeakerLimit == 10

\* The longest of the transcripts enumerated for identify_speakers.
MaxTranscriptLen == 5

\* The most words of a document whose reading time is computed.
MaxWords == 420

\* The longest list of outcomes generate_batch_summary is given.
MaxOutcomes == 4

\* The most calls of _call_ollama made on one client.
MaxCalls == 3

NL == "\n"

Chars == {"a", ".", NL}

\* An upper-case letter and the colon: ordinary characters for the chunker,
\* the two marks of a speaker label for identify_speakers.
UpperChars == {"A"}

Colon == ":"

Punct == {"."}

Space == " "

Whitespace == {NL, Space}

\* ------------------------------------------------------------------------
\* String helpers (Python str / re semantics on character sequences)
\* ------------------------------------------------------------------------

\* s[i:] keeping 1-based indices: the suffix of s that starts at index i.
Drop(s, i) == SubSeq(s, i, Len(s))

\* Index of the first occurrence of the separator "\n\n" in s, 0 if none.
FirstSep(s) ==
    IF \E i \in 1..(Len(s) - 1) : s[i] = NL /\ s[i + 1] = NL
    THEN CHOOSE i \in 1..(Len(s) - 1) :
            /\ s[i] = NL /\ s[i + 1] = NL
            /\ \A j \in 1..(i - 1) : ~(s[j] = NL /\ s[j + 1] = NL)
    ELSE 0

\* text.split("\n\n"): non-overlapping separators, scanned left to right;
\* the empty text gives one empty paragraph.
RECURSIVE SplitParagraphs(_)
SplitParagraphs(s) ==
    LET i == FirstSep(s) IN
    IF i = 0 THEN << s >>
    ELSE << SubSeq(s, 1, i - 1) >> \o SplitParagraphs(Drop(s, i + 2))

\* Index of the first sentence terminator in s, 0 if none.
FirstPunct(s) ==
    IF \E i \in 1..Len(s) : s[i] \in Punct
    THEN CHOOSE i \in 1..Len(s) :
            s[i] \in Punct /\ \A j \in 1..(i - 1) : s[j] \notin Punct
    ELSE 0

\* s without its leading run of sentence terminators.
RECURSIVE SkipPunct(_)
SkipPunct(s) ==
    IF s # << >> /\ Head(s) \in Punct THEN SkipPunct(Tail(s)) ELSE s

\* re.split(r"[.!?]+", paragraph): every maximal run of terminators is one
\* delimiter and is dropped; a run at either end yields an empty piece.
RECURSIVE SplitSentences(_)
SplitSentences(s) ==
    LET i == FirstPunct(s) IN
    IF i = 0 THEN << s >>
    ELSE << SubSeq(s, 1, i - 1) >> \o SplitSentences(SkipPunct(Drop(s, i)))

RECURSIVE LStrip(_)
LStrip(s) ==
    IF s # << >> /\ Head(s) \in Whitespace THEN LStrip(Tail(s)) ELSE s

RECURSIVE RStrip(_)
RStrip(s) ==
    IF s # << >> /\ s[Len(s)] \in Whitespace
    THEN RStrip(SubSeq(s, 1, Len(s) - 1))
    ELSE s

\* str.strip()
Strip(s) == RStrip(LStrip(s))

\* ------------------------------------------------------------------------
\* LongTextAnalyzer._chunk_text
\* ------------------------------------------------------------------------

\* The loop state of _chunk_text: the chunks emitted so far, the running
\* buffer, and (history) whether line 78 has cut a sentence.
ChunkState0 == [chunks |-> << >>, current_chunk |-> << >>, truncated |-> FALSE]

\* One iteration of the inner loop "for sentence in sentences".
SentenceStep(st, sentence) ==
    IF Len(st.current_chunk \o sentence) > max_chunk_size
    THEN IF st.current_chunk # << >>
         THEN [st EXCEPT !.chunks = Append(@, Strip(st.current_chunk)),
                         !.current_chunk = sentence]
         ELSE [st EXCEPT !.chunks =
                             Append(@, SubSeq(sentence, 1, max_chunk_size)),
                         !.truncated = TRUE]
    ELSE [st EXCEPT !.current_chunk = @ \o sentence]

RECURSIVE SentenceLoop(_, _)
SentenceLoop(st, sentences) ==
    IF sentences = << >> THEN st
    ELSE SentenceLoop(SentenceStep(st, Head(sentences)), Tail(sentences))

\* ParagraphStep with a flush that leaves the flushed text in the buffer.
ParagraphStep_keepBuffer(st, paragraph) ==
    IF Len(paragraph) > max_chunk_size
    THEN SentenceLoop(st, SplitSentences(paragraph))
    ELSE IF Len(st.current_chunk \o paragraph) > max_chunk_size
         THEN [st EXCEPT !.chunks = Append(@, Strip(st.current_chunk)),
                         !.current_chunk = @ \o paragraph]
         ELSE [st EXCEPT !.current_chunk = @ \o << NL, NL >> \o paragraph]

\* One iteration of the outer loop "for paragraph in paragraphs".
ParagraphStep(st, paragraph) ==
    IF Len(paragraph) > max_chunk_size
    THEN SentenceLoop(st, SplitSentences(paragraph))
    ELSE IF Len(st.current_chunk \o paragraph) > max_chunk_size
         THEN [st EXCEPT !.chunks = Append(@, Strip(st.current_chunk)),
                         !.current_chunk = paragraph]
         ELSE [st EXCEPT !.current_chunk = @ \o << NL, NL >> \o paragraph]

RECURSIVE ParagraphLoop(_, _)
ParagraphLoop(st, paragraphs) ==
    IF paragraphs = << >> THEN st
    ELSE ParagraphLoop(ParagraphStep(st, Head(paragraphs)), Tail(paragraphs))

\* The trailing flush of lines 88-89.
FinalFlush(st) ==
    IF Strip(st.current_chunk) # << >>
    THEN [st EXCEPT !.chunks = Append(@, Strip(st.current_chunk))]
    ELSE st

\* The whole function, as the analysis operations call it.
chunk_text(text) ==
    FinalFlush(ParagraphLoop(ChunkState0, SplitParagraphs(text))).chunks


\* ------------------------------------------------------------------------
\* State
\* ------------------------------------------------------------------------

VARIABLES
    \* -- one call of _chunk_text, iteration by iteration
    text,            \* the argument
    cpc,             \* "idle" | "split" | "loop" | "done"
    paragraphs,      \* the paragraphs the outer loop has still to visit
    cstate,          \* chunks, current_chunk (and the truncation history)
    \* -- one call of one analysis operation, request by request
    doc,             \* the operation, its argument, its locals, its requests
    \* -- one run of the batch command line (batch_analyzer.main)
    mainPc,          \* position of the main thread
    dir_exists,      \* Path(args.directory).exists()
    listing,         \* what find_text_files will find, in sorted order
    analysis_type,   \* args.type
    max_workers,     \* args.workers
    files,           \* the list process_files works on
    task,            \* per file: position and locals of analyze_single_file
    future,          \* per file: the value its future holds once done
    issued,          \* per file: the model requests sent so far, in order,
                     \*   each with whether it was answered (ok) or failed
    raised,          \* per file: message of the exception the task raised
    reports,         \* the report files written: <<path, source file>>
    results,         \* the list process_files collects
    interrupted,     \* "no", or where the main thread was at the signal
    exit_code,       \* -1 while the process runs
    summary_written, \* generate_batch_summary has written its file
    json_written,    \* save_results_json has written its file
    \* -- the world outside the program
    deterministic,   \* the backend and the file system repeat their answers
    oracle,          \* the answers given so far, per request
    run,             \* 1, or 2 in the second of two compared runs
    first_run        \* the outcome contents of the first run

chunkVars == << text, cpc, paragraphs, cstate, doc >>

batchVars == << mainPc, dir_exists, listing, analysis_type, max_workers,
                files, task, future, issued, raised, reports, results,
                interrupted, exit_code, summary_written, json_written,
                deterministic, oracle, run, first_run >>

vars == << chunkVars, batchVars >>

\* ------------------------------------------------------------------------
\* Specification of the chunker: one call of _chunk_text on a bounded text
\* ------------------------------------------------------------------------

\* All texts of length n over Chars.
TextsOfLen(n) == [1..n -> Chars]

Texts == UNION { TextsOfLen(n) : n \in 0..MaxTextLen }

\* No analysis operation is being followed.
DocIdle == [op |-> "idle"]

ChunkIdle ==
    /\ text = << >>
    /\ cpc = "idle"
    /\ paragraphs = << >>
    /\ cstate = ChunkState0
    /\ doc = DocIdle

\* paragraphs = text.split("\n\n"); chunks = []; current_chunk = ""
ChunkSplit ==
    /\ cpc = "split"
    /\ paragraphs' = SplitParagraphs(text)
    /\ cstate' = ChunkState0
    /\ cpc' = "loop"
    /\ UNCHANGED << text, doc, batchVars >>

\* One iteration of the outer loop on a paragraph longer than a chunk.
ChunkLongParagraph ==
    /\ cpc = "loop"
    /\ paragraphs # << >>
    /\ Len(Head(paragraphs)) > max_chunk_size
    /\ cstate' = ParagraphStep(cstate, Head(paragraphs))
    /\ paragraphs' = Tail(paragraphs)
    /\ UNCHANGED << text, cpc, doc, batchVars >>

\* One iteration of the outer loop on a paragraph that fits a chunk.
ChunkShortParagraph ==
    /\ cpc = "loop"
    /\ paragraphs # << >>
    /\ Len(Head(paragraphs)) <= max_chunk_size
    /\ cstate' = ParagraphStep(cstate, Head(paragraphs))
    /\ paragraphs' = Tail(paragraphs)
    /\ UNCHANGED << text, cpc, doc, batchVars >>

\* The loop is over: flush the buffer and return chunks.
ChunkReturn ==
    /\ cpc = "loop"
    /\ paragraphs = << >>
    /\ cstate' = FinalFlush(cstate)
    /\ cpc' = "done"
    /\ UNCHANGED << text, paragraphs, doc, batchVars >>


\* ------------------------------------------------------------------------
\* Documents, requests and answers
\* ------------------------------------------------------------------------

\* The files a directory may hold, in the order sorted() gives them.
\* Their texts are pairwise different, so a request is identified by the
\* file it is about.
FilePool == <<
    [name |-> "a.md",  stem |-> "a",
     text |-> << "A", "a", Colon, "a", NL, NL, "a", "a" >>],
    [name |-> "a.txt", stem |-> "a", text |-> << "a" >>],
    [name |-> "c.txt", stem |-> "c", text |-> << NL >>],
    [name |-> "e.txt", stem |-> "e", text |-> << ".", ".", ".", ".", "." >>] >>

\* The subsequence of FilePool at the positions S, in order.
RECURSIVE PoolSeq(_, _)
PoolSeq(S, k) ==
    IF k > Len(FilePool) THEN << >>
    ELSE (IF k \in S THEN << FilePool[k] >> ELSE << >>) \o PoolSeq(S, k + 1)

Listings ==
    { PoolSeq(S, 1) : S \in { T \in SUBSET (1..Len(FilePool)) :
                                  Cardinality(T) <= MaxFiles } }

\* len(text.split()): the number of maximal runs of non-whitespace.
WordCount(s) ==
    Cardinality({ i \in 1..Len(s) :
                    /\ s[i] \notin Whitespace
                    /\ (i = 1 \/ s[i - 1] \in Whitespace) })

\* re.findall(r"^([A-Z][^:]+):", text, re.MULTILINE) is not empty: some
\* line starts with an upper-case letter that a colon follows, at least
\* one character later and with no colon in between.
HasSpeakerPattern(s) ==
    \E i \in 1..Len(s) :
        /\ i = 1 \/ s[i - 1] = NL
        /\ s[i] \in UpperChars
        /\ \E j \in (i + 2)..Len(s) :
              s[j] = Colon /\ \A k \in (i + 1)..(j - 1) : s[k] # Colon

Range(q) == { q[k] : k \in 1..Len(q) }

Min(a, b) == IF a <= b THEN a ELSE b

\* The five model operations analyze_interview adds, in call order.
InterviewOps ==
    << "interview_type", "insights", "quotes", "question_themes",
       "interaction_style" >>

\* What the world may answer to a request: a failure (ok = FALSE) or a
\* value.  A keyword answer is the comma-separated list (keywords are
\* numbers), a topic answer its number of non-empty lines, a sentiment
\* answer the set of label words that occur in it; the other answers are
\* free text that no later step inspects.
Answers(op) ==
    CASE op = "keywords" ->
           { [ok |-> FALSE, val |-> << >>],
             [ok |-> TRUE, val |-> << 1, 2, 1 >>],
             [ok |-> TRUE, val |-> [k \in 1..(KeywordLimit + 1) |-> k]] }
      [] op = "kw_consolidate" ->
           { [ok |-> FALSE, val |-> << >>],
             [ok |-> TRUE, val |-> [k \in 1..(KeywordLimit + 2) |-> k]] }
      [] op = "topics" ->
           { [ok |-> FALSE, val |-> 0], [ok |-> TRUE, val |-> 5] }
      [] op = "sentiment" ->
           { [ok |-> FALSE, val |-> {}],
             [ok |-> TRUE, val |-> {"positive"}],
             [ok |-> TRUE, val |-> {}] }
      [] OTHER ->
           { [ok |-> FALSE, val |-> ""], [ok |-> TRUE, val |-> "text"] }

\* analyze_sentiment that knows the English words only.
SentimentLabel_englishOnly(words) ==
    IF "positive" \in words THEN "Positive"
    ELSE IF "negative" \in words THEN "Negative"
    ELSE IF "mixed" \in words THEN "Mixed"
    ELSE "Neutral"

\* The mapping of analyze_sentiment from the words found in the answer.
SentimentLabel(words) ==
    IF words \cap {"positivo", "positive"} # {} THEN "Positive"
    ELSE IF words \cap {"negativo", "negative"} # {} THEN "Negative"
    ELSE IF words \cap {"mixto", "mixed"} # {} THEN "Mixed"
    ELSE "Neutral"

\* The answers the world can give to request (op, i) about file f now.
Possible(f, op, i) ==
    IF deterministic /\ << f.name, op, i >> \in DOMAIN oracle
    THEN { oracle[<< f.name, op, i >>] }
    ELSE Answers(op)

Remember(f, op, i, a) ==
    IF deterministic THEN (<< f.name, op, i >> :> a) @@ oracle ELSE oracle

\* ------------------------------------------------------------------------
\* Outcomes of analyze_single_file (the timestamp is left out)
\* ------------------------------------------------------------------------

NoOutcome ==
    [file |-> "", status |-> "pending", error |-> "", output_report |-> "",
     word_count |-> 0, keywords_count |-> 0, topics_count |-> 0,
     sentiment |-> "", analysis_type |-> ""]

ErrorOutcome(f, msg) ==
    [NoOutcome EXCEPT !.file = f.name, !.status = "error", !.error = msg]

\* file_path.parent / f"{file_path.stem}_{analysis_type}_report.md"
ReportPath(f, type) == << f.stem, type >>

\* An outcome that counts words in a counter shared by the running tasks.
SuccessOutcome_shared(f, type, t) ==
    [file |-> f.name, status |-> "success", error |-> "",
     output_report |-> ReportPath(f, type),
     word_count |-> WordCount(f.text) +
        Cardinality({ d \in DOMAIN task :
                        task[d].pc \notin {"unsubmitted", "queued", "done"} }),
     keywords_count |-> t.keywords_count,
     topics_count |-> t.topics_count,
     sentiment |-> t.sentiment,
     analysis_type |-> type]

SuccessOutcome(f, type, t) ==
    [file |-> f.name, status |-> "success", error |-> "",
     output_report |-> ReportPath(f, type),
     word_count |-> WordCount(f.text),
     keywords_count |-> t.keywords_count,
     topics_count |-> t.topics_count,
     sentiment |-> t.sentiment,
     analysis_type |-> type]

\* The message of line 62, written without its accent.
EmptyFileError == "Archivo vacio"

ReadError == "cannot read file"

OllamaError == "Error connecting to Ollama"

IndexError == "list index out of range"

WriteError == "cannot write report"

\* ------------------------------------------------------------------------
\* One task: analyze_single_file, one step per blocking operation
\* ------------------------------------------------------------------------

IdleTask ==
    [pc |-> "unsubmitted", i |-> 0, unique |-> {}, keywords_count |-> 0,
     topics_count |-> 0, sentiment |-> "", late |-> FALSE,
     yielded |-> FALSE]

RunningPcs ==
    { "read", "keywords", "kw_consolidate", "summary", "sum_consolidate",
      "topics", "sentiment", "speakers", "write" } \cup Range(InterviewOps)

\* A pool whose worker does not take another work item after its first.
Running_neverReleased ==
    { d \in DOMAIN task : task[d].pc \in RunningPcs \cup {"done"} }

Running == { d \in DOMAIN task : task[d].pc \in RunningPcs }

NumChunks(f) == Len(chunk_text(f.text))

\* Where analyze_text / analyze_interview goes once the speakers are known.
AfterSpeakers == IF analysis_type = "interview" THEN InterviewOps[1] ELSE "write"

\* identify_speakers calls the model only when no label is found.
AfterSentiment(f) ==
    IF HasSpeakerPattern(f.text) THEN AfterSpeakers ELSE "speakers"

\* The task of file d ends: its future holds outcome o.
Finish(d, o, msg) ==
    /\ task' = [task EXCEPT ![d] = [IdleTask EXCEPT !.pc = "done",
                                                    !.late = task[d].late]]
    /\ future' = [future EXCEPT ![d] = o]
    /\ raised' = [raised EXCEPT ![d] = msg]

\* The except clause with a fixed text in place of str(e).
Fail_dropMessage(d, msg) ==
    Finish(d, ErrorOutcome(files[d], "error"), msg)

\* The except clause of lines 96-102: the exception becomes the outcome.
Fail(d, msg) == Finish(d, ErrorOutcome(files[d], msg), msg)

\* The task goes on with the locals t.
Continue(d, t) ==
    /\ task' = [task EXCEPT ![d] = t]
    /\ UNCHANGED << future, raised >>

\* One request (op, i) of task d is sent and answered by a.
Request(d, op, i, a) ==
    /\ a \in Possible(files[d], op, i)
    /\ issued' = [issued EXCEPT ![d] =
                      Append(@, [op |-> op, i |-> i, ok |-> a.ok])]
    /\ oracle' = Remember(files[d], op, i, a)

mainVars == << mainPc, dir_exists, listing, analysis_type, max_workers,
               files, results, interrupted, exit_code, summary_written,
               json_written, deterministic, run, first_run >>

\* A pool that starts a thread per work item, whatever max_workers is.
StartTask_unbounded(d) ==
    /\ d \in DOMAIN task
    /\ task[d].pc = "queued"
    /\ \A e \in 1..(d - 1) : task[e].pc # "queued"
    /\ task' = [task EXCEPT ![d].pc = "read",
                            ![d].late = (interrupted # "no")]
    /\ UNCHANGED << chunkVars, mainVars, future, issued, raised, reports,
                    oracle >>

\* A worker thread takes the oldest queued work item.
StartTask(d) ==
    /\ d \in DOMAIN task
    /\ task[d].pc = "queued"
    /\ \A e \in 1..(d - 1) : task[e].pc # "queued"
    /\ Cardinality(Running) < max_workers
    /\ task' = [task EXCEPT ![d].pc = "read",
                            ![d].late = (interrupted # "no")]
    /\ UNCHANGED << chunkVars, mainVars, future, issued, raised, reports,
                    oracle >>

\* analyze_single_file without the test of lines 58-64.
ReadFile_noEmptyCheck(d) ==
    /\ d \in DOMAIN task
    /\ task[d].pc = "read"
    /\ \E a \in Possible(files[d], "read", 0) :
         /\ oracle' = Remember(files[d], "read", 0, a)
         /\ IF ~a.ok THEN Fail(d, ReadError)
            ELSE IF NumChunks(files[d]) = 0 THEN Fail(d, IndexError)
            ELSE Continue(d, [task[d] EXCEPT !.pc = "keywords", !.i = 1])
    /\ UNCHANGED << chunkVars, mainVars, issued, reports >>

\* Lines 55-64: read the file; an empty text ends the task at once.  A text
\* without any chunk makes no keyword or summary call and fails at
\* chunk_summaries[0].
ReadFile(d) ==
    /\ d \in DOMAIN task
    /\ task[d].pc = "read"
    /\ \E a \in Possible(files[d], "read", 0) :
         /\ oracle' = Remember(files[d], "read", 0, a)
         /\ IF ~a.ok THEN Fail(d, ReadError)
            ELSE IF Strip(files[d].text) = << >>
                 THEN Finish(d, ErrorOutcome(files[d], EmptyFileError), "")
            ELSE IF NumChunks(files[d]) = 0 THEN Fail(d, IndexError)
            ELSE Continue(d, [task[d] EXCEPT !.pc = "keywords", !.i = 1])
    /\ UNCHANGED << chunkVars, mainVars, issued, reports >>

\* extract_keywords, the call for chunk i (lines 100-119), and after the
\* last chunk the choice of lines 122-137.
KeywordCall(d) ==
    /\ d \in DOMAIN task
    /\ task[d].pc = "keywords"
    /\ \E a \in Answers("keywords") :
         /\ Request(d, "keywords", task[d].i, a)
         /\ IF ~a.ok THEN Fail(d, OllamaError)
            ELSE LET u == task[d].unique \cup Range(a.val) IN
                 IF task[d].i < NumChunks(files[d])
                 THEN Continue(d, [task[d] EXCEPT !.i = @ + 1, !.unique = u])
                 ELSE IF Cardinality(u) > KeywordLimit
                 THEN Continue(d, [task[d] EXCEPT !.pc = "kw_consolidate",
                                                  !.i = 1, !.unique = u])
                 ELSE Continue(d, [task[d] EXCEPT
                          !.pc = "summary", !.i = 1, !.unique = {},
                          !.keywords_count = Min(Cardinality(u), KeywordLimit)])
    /\ UNCHANGED << chunkVars, mainVars, reports >>

\* extract_keywords, the consolidation call of lines 125-137.
KeywordConsolidate(d) ==
    /\ d \in DOMAIN task
    /\ task[d].pc = "kw_consolidate"
    /\ \E a \in Answers("kw_consolidate") :
         /\ Request(d, "kw_consolidate", 1, a)
         /\ IF ~a.ok THEN Fail(d, OllamaError)
            ELSE Continue(d, [task[d] EXCEPT
                     !.pc = "summary", !.i = 1, !.unique = {},
                     !.keywords_count = Min(Len(a.val), KeywordLimit)])
    /\ UNCHANGED << chunkVars, mainVars, reports >>

\* generate_detailed_summary, the call for chunk i (lines 147-164).
SummaryCall(d) ==
    /\ d \in DOMAIN task
    /\ task[d].pc = "summary"
    /\ \E a \in Answers("summary") :
         /\ Request(d, "summary", task[d].i, a)
         /\ IF ~a.ok THEN Fail(d, OllamaError)
            ELSE IF task[d].i < NumChunks(files[d])
                 THEN Continue(d, [task[d] EXCEPT !.i = @ + 1])
            ELSE IF NumChunks(files[d]) > 1
                 THEN Continue(d, [task[d] EXCEPT !.pc = "sum_consolidate",
                                                  !.i = 1])
            ELSE Continue(d, [task[d] EXCEPT !.pc = "topics", !.i = 1])
    /\ UNCHANGED << chunkVars, mainVars, reports >>

\* generate_detailed_summary, the consolidation call of lines 167-185.
SummaryConsolidate(d) ==
    /\ d \in DOMAIN task
    /\ task[d].pc = "sum_consolidate"
    /\ \E a \in Answers("sum_consolidate") :
         /\ Request(d, "sum_consolidate", 1, a)
         /\ IF ~a.ok THEN Fail(d, OllamaError)
            ELSE Continue(d, [task[d] EXCEPT !.pc = "topics"])
    /\ UNCHANGED << chunkVars, mainVars, reports >>

\* extract_key_topics that sends its request again after a failure.
TopicsCall_retry(d) ==
    /\ d \in DOMAIN task
    /\ task[d].pc = "topics"
    /\ \E a \in Answers("topics") :
         /\ Request(d, "topics", 1, a)
         /\ IF ~a.ok THEN Continue(d, task[d])
            ELSE Continue(d, [task[d] EXCEPT
                     !.pc = "sentiment",
                     !.topics_count = Min(a.val, TopicLimit)])
    /\ UNCHANGED << chunkVars, mainVars, reports >>

\* extract_key_topics: one call, the list cut at 8.
TopicsCall(d) ==
    /\ d \in DOMAIN task
    /\ task[d].pc = "topics"
    /\ \E a \in Answers("topics") :
         /\ Request(d, "topics", 1, a)
         /\ IF ~a.ok THEN Fail(d, OllamaError)
            ELSE Continue(d, [task[d] EXCEPT
                     !.pc = "sentiment",
                     !.topics_count = Min(a.val, TopicLimit)])
    /\ UNCHANGED << chunkVars, mainVars, reports >>

\* analyze_sentiment: one call, the answer mapped to a label; then
\* identify_speakers looks for labels before it asks the model.
SentimentCall(d) ==
    /\ d \in DOMAIN task
    /\ task[d].pc = "sentiment"
    /\ \E a \in Answers("sentiment") :
         /\ Request(d, "sentiment", 1, a)
         /\ IF ~a.ok THEN Fail(d, OllamaError)
            ELSE Continue(d, [task[d] EXCEPT
                     !.pc = AfterSentiment(files[d]),
                     !.sentiment = SentimentLabel(a.val)])
    /\ UNCHANGED << chunkVars, mainVars, reports >>

\* identify_speakers, the model call of lines 260-277.
SpeakersCall(d) ==
    /\ d \in DOMAIN task
    /\ task[d].pc = "speakers"
    /\ \E a \in Answers("speakers") :
         /\ Request(d, "speakers", 1, a)
         /\ IF ~a.ok THEN Fail(d, OllamaError)
            ELSE Continue(d, [task[d] EXCEPT !.pc = AfterSpeakers])
    /\ UNCHANGED << chunkVars, mainVars, reports >>

\* analyze_interview, lines 188-201: the five extra calls, one after the
\* other.
InterviewCall(d) ==
    /\ d \in DOMAIN task
    /\ \E k \in 1..Len(InterviewOps) :
         /\ task[d].pc = InterviewOps[k]
         /\ \E a \in Answers(InterviewOps[k]) :
              /\ Request(d, InterviewOps[k], 1, a)
              /\ IF ~a.ok THEN Fail(d, OllamaError)
                 ELSE Continue(d, [task[d] EXCEPT !.pc =
                          IF k < Len(InterviewOps) THEN InterviewOps[k + 1]
                          ELSE "write"])
    /\ UNCHANGED << chunkVars, mainVars, reports >>

\* Lines 74-94: write the report and return the success outcome.
WriteReport(d) ==
    /\ d \in DOMAIN task
    /\ task[d].pc = "write"
    /\ \E a \in Possible(files[d], "write", 0) :
         /\ oracle' = Remember(files[d], "write", 0, a)
         /\ IF ~a.ok
            THEN Fail(d, WriteError) /\ UNCHANGED reports
            ELSE /\ Finish(d, SuccessOutcome(files[d], analysis_type, task[d]),
                           "")
                 /\ reports' = reports \cup
                       { << ReportPath(files[d], analysis_type),
                            files[d].name >> }
    /\ UNCHANGED << chunkVars, mainVars, issued >>


\* ------------------------------------------------------------------------
\* The main thread: batch_analyzer.main and process_files
\* ------------------------------------------------------------------------

taskVars == << task, future, issued, raised, reports, oracle >>

runParams == << dir_exists, listing, analysis_type, max_workers,
                deterministic, run, first_run >>

\* Lines 257-260: the directory must exist.
CheckDirectory ==
    /\ mainPc = "check_directory"
    /\ IF dir_exists
       THEN mainPc' = "find_files" /\ UNCHANGED exit_code
       ELSE mainPc' = "exit" /\ exit_code' = 1
    /\ UNCHANGED << chunkVars, taskVars, runParams, files, results,
                    interrupted, summary_written, json_written >>

\* Lines 267-276: find the files; none is an error.
FindFiles ==
    /\ mainPc = "find_files"
    /\ files' = listing
    /\ IF listing = << >>
       THEN mainPc' = "exit" /\ exit_code' = 1
       ELSE mainPc' = "confirm" /\ UNCHANGED exit_code
    /\ UNCHANGED << chunkVars, taskVars, runParams, results, interrupted,
                    summary_written, json_written >>

\* Lines 278-282: the user confirms or cancels.
Confirm ==
    /\ mainPc = "confirm"
    /\ \E yes \in BOOLEAN :
         IF yes
         THEN /\ mainPc' = "submit"
              /\ task' = [d \in 1..Len(files) |-> IdleTask]
              /\ future' = [d \in 1..Len(files) |-> NoOutcome]
              /\ issued' = [d \in 1..Len(files) |-> << >>]
              /\ raised' = [d \in 1..Len(files) |-> ""]
              /\ UNCHANGED exit_code
         ELSE /\ mainPc' = "exit"
              /\ exit_code' = 0
              /\ UNCHANGED << task, future, issued, raised >>
    /\ UNCHANGED << chunkVars, runParams, files, reports, oracle, results,
                    interrupted, summary_written, json_written >>

\* Lines 120-125: executor.submit for the next file of the list.
Submit ==
    /\ mainPc = "submit"
    /\ \E d \in DOMAIN task :
         /\ task[d].pc = "unsubmitted"
         /\ \A e \in 1..(d - 1) : task[e].pc # "unsubmitted"
         /\ task' = [task EXCEPT ![d].pc = "queued"]
         /\ mainPc' = IF d = Len(files) THEN "collect" ELSE "submit"
    /\ UNCHANGED << chunkVars, runParams, files, future, issued, raised,
                    reports, oracle, results, interrupted, exit_code,
                    summary_written, json_written >>

\* Collect as a loop that keeps only the successful outcomes.
Collect_skipErrors(d) ==
    /\ mainPc = "collect"
    /\ d \in DOMAIN task
    /\ task[d].pc = "done"
    /\ ~task[d].yielded
    /\ results' = IF future[d].status = "error" THEN results
                  ELSE Append(results, future[d])
    /\ task' = [task EXCEPT ![d].yielded = TRUE]
    /\ mainPc' = IF \A e \in DOMAIN task \ {d} : task[e].yielded
                 THEN "summary" ELSE "collect"
    /\ UNCHANGED << chunkVars, runParams, files, future, issued, raised,
                    reports, oracle, interrupted, exit_code,
                    summary_written, json_written >>

\* Lines 129-137: as_completed yields a finished future, its result is
\* appended; after the last one process_files returns.
Collect(d) ==
    /\ mainPc = "collect"
    /\ d \in DOMAIN task
    /\ task[d].pc = "done"
    /\ ~task[d].yielded
    /\ results' = Append(results, future[d])
    /\ task' = [task EXCEPT ![d].yielded = TRUE]
    /\ mainPc' = IF \A e \in DOMAIN task \ {d} : task[e].yielded
                 THEN "summary" ELSE "collect"
    /\ UNCHANGED << chunkVars, runParams, files, future, issued, raised,
                    reports, oracle, interrupted, exit_code,
                    summary_written, json_written >>

\* Lines 288-296: generate_batch_summary writes the summary file.
WriteSummary ==
    /\ mainPc = "summary"
    /\ summary_written' = TRUE
    /\ mainPc' = "json"
    /\ UNCHANGED << chunkVars, taskVars, runParams, files, results,
                    interrupted, exit_code, json_written >>

\* A main that reports failed documents in its exit code.
WriteJson_exitOnErrors ==
    /\ mainPc = "json"
    /\ json_written' = TRUE
    /\ mainPc' = "exit"
    /\ exit_code' = IF \E k \in 1..Len(results) : results[k].status = "error"
                    THEN 1 ELSE 0
    /\ UNCHANGED << chunkVars, taskVars, runParams, files, results,
                    interrupted, summary_written >>

\* Lines 298-305: save_results_json writes the JSON file; main returns.
WriteJson ==
    /\ mainPc = "json"
    /\ json_written' = TRUE
    /\ mainPc' = "exit"
    /\ exit_code' = 0
    /\ UNCHANGED << chunkVars, taskVars, runParams, files, results,
                    interrupted, summary_written >>

\* KeyboardInterrupt in the main thread.  Inside process_files it leaves
\* the loop and enters the executor's __exit__, which is shutdown(wait=True);
\* after process_files it goes straight to the handler of lines 307-309.
Interrupt ==
    /\ interrupted = "no"
    /\ mainPc \in {"submit", "collect", "summary", "json"}
    /\ interrupted' = mainPc
    /\ IF mainPc \in {"submit", "collect"}
       THEN mainPc' = "shutdown" /\ UNCHANGED exit_code
       ELSE mainPc' = "exit" /\ exit_code' = 1
    /\ UNCHANGED << chunkVars, taskVars, runParams, files, results,
                    summary_written, json_written >>

\* The executor left with shutdown(wait=False): the handler runs at once.
Shutdown_nowait ==
    /\ mainPc = "shutdown"
    /\ mainPc' = "exit"
    /\ exit_code' = 1
    /\ UNCHANGED << chunkVars, taskVars, runParams, files, results,
                    interrupted, summary_written, json_written >>

\* shutdown(wait=True) has joined the workers, which first run every work
\* item still queued; the interrupt reaches lines 307-309: exit code 1.
Shutdown ==
    /\ mainPc = "shutdown"
    /\ \A d \in DOMAIN task : task[d].pc \in {"unsubmitted", "done"}
    /\ mainPc' = "exit"
    /\ exit_code' = 1
    /\ UNCHANGED << chunkVars, taskVars, runParams, files, results,
                    interrupted, summary_written, json_written >>

\* ------------------------------------------------------------------------
\* Specifications
\* ------------------------------------------------------------------------

BatchIdle ==
    /\ mainPc = "idle"
    /\ dir_exists = TRUE
    /\ listing = << >>
    /\ analysis_type = "general"
    /\ max_workers = 1
    /\ deterministic = FALSE
    /\ run = 1

BatchStart ==
    /\ files = << >>
    /\ task = << >>
    /\ future = << >>
    /\ issued = << >>
    /\ raised = << >>
    /\ reports = {}
    /\ results = << >>
    /\ interrupted = "no"
    /\ exit_code = -1
    /\ summary_written = FALSE
    /\ json_written = FALSE
    /\ oracle = << >>
    /\ first_run = {}

\* One run of the batch command line.
Init ==
    /\ ChunkIdle
    /\ mainPc = "check_directory"
    /\ dir_exists \in BOOLEAN
    /\ listing \in Listings
    /\ analysis_type \in {"general", "interview"}
    /\ max_workers \in 1..MaxWorkers
    /\ deterministic = FALSE
    /\ run = 1
    /\ BatchStart

\* A step of the task of file d in a general analysis.
GeneralTaskStep(d) ==
    \/ StartTask(d)
    \/ ReadFile(d)
    \/ KeywordCall(d)
    \/ KeywordConsolidate(d)
    \/ SummaryCall(d)
    \/ SummaryConsolidate(d)
    \/ TopicsCall(d)
    \/ SentimentCall(d)
    \/ SpeakersCall(d)
    \/ WriteReport(d)

TaskStep(d) == GeneralTaskStep(d) \/ InterviewCall(d)

Next ==
    \/ CheckDirectory
    \/ FindFiles
    \/ Confirm
    \/ Submit
    \/ \E d \in 1..Len(FilePool) : TaskStep(d)
    \/ \E d \in 1..Len(FilePool) : Collect(d)
    \/ WriteSummary
    \/ WriteJson
    \/ Interrupt
    \/ Shutdown

Spec == Init /\ [][Next]_vars

\* One call of _chunk_text on every text up to MaxTextLen.
InitChunk ==
    /\ text \in Texts
    /\ cpc = "split"
    /\ paragraphs = << >>
    /\ cstate = ChunkState0
    /\ doc = DocIdle
    /\ BatchIdle
    /\ BatchStart

NextChunk ==
    \/ ChunkSplit
    \/ ChunkLongParagraph
    \/ ChunkShortParagraph
    \/ ChunkReturn

SpecChunk == InitChunk /\ [][NextChunk]_vars


\* A second run of process_files over the same files, in the same process
\* and against the same world, with another number of workers.
Rerun ==
    /\ mainPc = "exit"
    /\ run = 1
    /\ json_written
    /\ run' = 2
    /\ first_run' = Range(results)
    /\ max_workers' = WorkersB
    /\ mainPc' = "submit"
    /\ task' = [d \in 1..Len(files) |-> IdleTask]
    /\ future' = [d \in 1..Len(files) |-> NoOutcome]
    /\ issued' = [d \in 1..Len(files) |-> << >>]
    /\ raised' = [d \in 1..Len(files) |-> ""]
    /\ results' = << >>
    /\ exit_code' = -1
    /\ summary_written' = FALSE
    /\ json_written' = FALSE
    /\ UNCHANGED << chunkVars, dir_exists, listing, analysis_type, files,
                    reports, interrupted, deterministic, oracle >>

InitTwoRuns ==
    /\ ChunkIdle
    /\ mainPc = "check_directory"
    /\ dir_exists = TRUE
    /\ listing \in Listings
    /\ analysis_type = "general"
    /\ max_workers = WorkersA
    /\ deterministic = TRUE
    /\ run = 1
    /\ BatchStart

\* Two uninterrupted runs of the general analysis.
NextTwoRuns ==
    \/ CheckDirectory
    \/ FindFiles
    \/ Confirm
    \/ Submit
    \/ \E d \in 1..Len(FilePool) : GeneralTaskStep(d)
    \/ \E d \in 1..Len(FilePool) : Collect(d)
    \/ WriteSummary
    \/ WriteJson
    \/ Rerun

SpecTwoRuns == InitTwoRuns /\ [][NextTwoRuns]_vars

\* ------------------------------------------------------------------------
\* Properties of the batch driver
\* ------------------------------------------------------------------------

\* process_files has returned its list.
Returned ==
    \/ mainPc \in {"summary", "json"}
    \/ json_written
    \/ interrupted \in {"summary", "json"}

\* The document of file d fails: its task raised an error, or its text is
\* empty after trimming.
Failed(d) == raised[d] # "" \/ Strip(files[d].text) = << >>

Indexes(status) == { k \in 1..Len(results) : results[k].status = status }

\* C1: when process_files returns, the list holds exactly one outcome per
\* submitted document, each with status success or error; the number of
\* error outcomes is the number of documents that failed, and successes
\* plus errors is the number of documents.
C1_OneOutcomePerDocument ==
    Returned =>
        /\ Len(results) = Len(files)
        /\ \A d \in 1..Len(files) :
              Cardinality({ k \in 1..Len(results) :
                              results[k].file = files[d].name }) = 1
        /\ \A k \in 1..Len(results) : results[k].status \in {"success", "error"}
        /\ Cardinality(Indexes("error")) =
              Cardinality({ d \in 1..Len(files) : Failed(d) })
        /\ Cardinality(Indexes("success")) + Cardinality(Indexes("error"))
              = Len(files)

C1_Witness ==
    /\ Returned
    /\ Len(files) >= 2
    /\ Indexes("error") # {}
    /\ Indexes("success") # {}

\* C2: an error raised in the task of a document becomes that document's
\* outcome, with status error and the error's message; it does not end the
\* batch (a run that was not interrupted ends with every outcome collected
\* and both files written), and every task that is running can take its
\* next step whatever the other tasks did.
C2_ErrorsStayInTheirTask ==
    /\ \A d \in DOMAIN raised :
          raised[d] # "" =>
              /\ task[d].pc = "done"
              /\ future[d] = ErrorOutcome(files[d], raised[d])
    /\ (mainPc = "exit" /\ task # << >> /\ interrupted = "no") =>
          /\ json_written
          /\ exit_code = 0
          /\ \A d \in 1..Len(files) :
                \E k \in 1..Len(results) : results[k] = future[d]
    /\ \A d \in Running : ENABLED TaskStep(d)

C2_Witness ==
    /\ json_written
    /\ \E d, e \in DOMAIN raised :
          /\ raised[d] = OllamaError
          /\ raised[e] = ""
          /\ future[e].status = "success"

\* C3: never more than max_workers tasks run at the same time; there is
\* one task per document, and a task that is not running has not started
\* yet or is completed.
C3_BoundedWorkers ==
    /\ Cardinality(Running) <= max_workers
    /\ task # << >> => DOMAIN task = 1..Len(files)
    /\ \A d \in DOMAIN task :
          d \notin Running => task[d].pc \in {"unsubmitted", "queued", "done"}

C3_Witness ==
    /\ Cardinality(Running) = max_workers
    /\ \E d \in DOMAIN task : task[d].pc = "queued"

InterruptedInBatch == interrupted \in {"submit", "collect"}

\* C4 as the specification states it: after an interrupt during the batch
\* run no task that had not started is started any more, and the outcomes
\* collected so far are written to the summary and the JSON file.
C4_InterruptReportsCollected ==
    InterruptedInBatch =>
        /\ \A d \in DOMAIN task : ~task[d].late
        /\ mainPc = "exit" => summary_written /\ json_written

\* C4 amended: after an interrupt during the batch run no running task is
\* aborted (a task ends with an error only if its document failed), every
\* task already submitted - also one not yet started - still runs to its
\* end before the process exits (only files not yet submitted are left
\* out), no summary and no JSON file is written, and the exit code is 1.
C4_InterruptDrainsAndDiscards ==
    InterruptedInBatch =>
        /\ ~summary_written
        /\ ~json_written
        /\ \A d \in DOMAIN task :
              task[d].pc = "done" =>
                  /\ future[d].status \in {"success", "error"}
                  /\ future[d].status = "error" => Failed(d)
        /\ mainPc = "exit" =>
              /\ exit_code = 1
              /\ \A d \in DOMAIN task :
                    /\ task[d].pc \in {"unsubmitted", "done"}
                    /\ task[d].pc = "unsubmitted" => interrupted = "submit"

C4_Witness ==
    /\ interrupted = "collect"
    /\ mainPc = "exit"
    /\ results # << >>
    /\ \E d \in DOMAIN task : task[d].late /\ future[d].status = "success"

\* C5: no request is sent twice within one document's analysis, and the
\* first failed call is the last one: the task is over, its outcome is an
\* error without any result field, and it has written no report.
C5_NoRetry ==
    \A d \in DOMAIN issued :
        /\ \A j, k \in 1..Len(issued[d]) :
              (issued[d][j].op = issued[d][k].op /\
               issued[d][j].i = issued[d][k].i) => j = k
        /\ \A k \in 1..Len(issued[d]) :
              ~issued[d][k].ok =>
                  /\ k = Len(issued[d])
                  /\ task[d].pc = "done"
                  /\ future[d] = ErrorOutcome(files[d], OllamaError)
                  /\ << ReportPath(files[d], analysis_type), files[d].name >>
                        \notin reports

C5_Witness ==
    \E d \in DOMAIN issued :
        /\ Len(issued[d]) >= 3
        /\ ~issued[d][Len(issued[d])].ok
        /\ task[d].pc = "done"

\* C6: a document whose text is empty after trimming gets an error outcome
\* (the empty-file error) without any model call and without a report.
C6_EmptyDocumentShortCircuit ==
    \A d \in DOMAIN task :
        Strip(files[d].text) = << >> =>
            /\ issued[d] = << >>
            /\ << ReportPath(files[d], analysis_type), files[d].name >>
                  \notin reports
            /\ (task[d].pc = "done" /\ raised[d] # ReadError) =>
                  /\ future[d] = ErrorOutcome(files[d], EmptyFileError)
                  /\ raised[d] = ""

C6_Witness ==
    \E d, e \in DOMAIN task :
        /\ Strip(files[d].text) = << >>
        /\ future[d].status = "error"
        /\ raised[d] = ""
        /\ future[e].status = "success"

RECURSIVE Concat(_)
Concat(seqs) == IF seqs = << >> THEN << >> ELSE Head(seqs) \o Concat(Tail(seqs))

IsNotNewline(c) == c # NL

\* s without the characters of paragraph separators.
WithoutSeparators(s) == SelectSeq(s, IsNotNewline)

\* C8: no chunk that _chunk_text returns is longer than max_chunk_size (a
\* chunk cut from an over-long sentence is exactly that long).
C8_ChunksWithinMax ==
    cpc = "done" =>
        \A k \in 1..Len(cstate.chunks) :
            Len(cstate.chunks[k]) <= max_chunk_size

\* C9: for every non-empty text _chunk_text returns at least one chunk.
C9_NonEmptyTextHasChunk ==
    (cpc = "done" /\ text # << >>) => cstate.chunks # << >>

\* C10: unless a sentence was truncated, the chunks concatenated in order
\* give the text back, paragraph separators ignored.
C10_ChunksReproduceText ==
    (cpc = "done" /\ ~cstate.truncated) =>
        WithoutSeparators(Concat(cstate.chunks)) = WithoutSeparators(text)

\* C11: whenever the inner loop meets a sentence longer than max_chunk_size,
\* whatever the buffer holds, the sentence cut to max_chunk_size is the
\* chunk that iteration emits, and the sentence is not carried in the
\* buffer afterwards.
C11_LongSentenceTruncated ==
    (cpc = "loop" /\ paragraphs # << >>
        /\ Len(Head(paragraphs)) > max_chunk_size) =>
        LET sentences == SplitSentences(Head(paragraphs)) IN
        \A k \in 1..Len(sentences) :
            Len(sentences[k]) > max_chunk_size =>
                LET before == SentenceLoop(cstate, SubSeq(sentences, 1, k - 1))
                    after  == SentenceStep(before, sentences[k])
                IN  /\ Len(after.chunks) = Len(before.chunks) + 1
                    /\ after.chunks[Len(after.chunks)] =
                           SubSeq(sentences[k], 1, max_chunk_size)
                    /\ after.current_chunk = before.current_chunk

\* a is b with some characters left out (the others in b's order).
RECURSIVE IsSubsequence(_, _)
IsSubsequence(a, b) ==
    IF a = << >> THEN TRUE
    ELSE IF b = << >> THEN FALSE
    ELSE IF Head(a) = Head(b) THEN IsSubsequence(Tail(a), Tail(b))
    ELSE IsSubsequence(a, Tail(b))

\* C12: the chunks _chunk_text returns are in document order and do not
\* overlap: laid end to end they are the text with pieces left out, so
\* the text of a chunk comes before the text of every later chunk and no
\* piece of the text is in two chunks.
C12_ChunksOrderedDisjoint ==
    cpc = "done" => IsSubsequence(Concat(cstate.chunks), text)

\* A text cut into two different chunks, one of them of two paragraphs.
C12_Witness ==
    /\ cpc = "done"
    /\ Len(cstate.chunks) = 2
    /\ cstate.chunks[1] = << "a", ".">>
    /\ cstate.chunks[2] = << "a", NL, NL, "a" >>


\* ------------------------------------------------------------------------
\* The analysis operations, one call at a time: doc holds the operation's
\* argument and locals, the prompts it has sent (calls) and the answers it
\* has received (answers)
\* ------------------------------------------------------------------------

\* What an operation of this part leaves alone.
opsFrame == << text, cpc, paragraphs, cstate, batchVars >>

\* _call_ollama: the prompt goes out and the answer a comes back.
Ask(d, prompt, a) ==
    [d EXCEPT !.calls = Append(@, prompt), !.answers = Append(@, a)]

\* _call_ollama raises (lines 57-58) and the operation does not catch it.
OpRaise(d, msg) == [d EXCEPT !.pc = "raised", !.error = msg]

\* ---- generate_detailed_summary ------------------------------------------

\* The documents analysed: of one, two and three chunks, of none, empty.
OpTexts ==
    { << "a" >>,
      << "a", "a", NL, NL, "a", "a" >>,
      << "a", "a", NL, NL, "a", "a", NL, NL, "a", "a" >>,
      << ".", ".", ".", ".", "." >>,
      << >> }

\* The answers to a summary request: a failure or one of two texts.
SummaryAnswers ==
    { [ok |-> FALSE, val |-> ""],
      [ok |-> TRUE, val |-> "s1"], [ok |-> TRUE, val |-> "s2"] }

SummaryStart(t) ==
    [op |-> "summary", pc |-> "begin", text |-> t, chunks |-> << >>,
     chunk_summaries |-> << >>, calls |-> << >>, answers |-> << >>,
     result |-> "", error |-> ""]

\* f"PART {i+1}: {summary}" for i, summary in enumerate(chunk_summaries)
TaggedParts(chunk_summaries) ==
    [k \in 1..Len(chunk_summaries) |->
        [part |-> k, summary |-> chunk_summaries[k]]]

\* chunks = self._chunk_text(text); chunk_summaries = []
GenerateSummaryBegin ==
    /\ doc.op = "summary"
    /\ doc.pc = "begin"
    /\ LET chunks == chunk_text(doc.text) IN
       doc' = IF chunks = << >>
              THEN OpRaise([doc EXCEPT !.chunks = chunks], IndexError)
              ELSE [doc EXCEPT !.chunks = chunks, !.pc = "chunk"]
    /\ UNCHANGED opsFrame

\* generate_detailed_summary that consolidates a single summary too.
GenerateSummaryChunk_alwaysConsolidate ==
    /\ doc.op = "summary"
    /\ doc.pc = "chunk"
    /\ \E a \in SummaryAnswers :
         LET i == Len(doc.chunk_summaries) + 1
             asked == Ask(doc, [kind |-> "summary", part |-> i,
                                of |-> Len(doc.chunks),
                                body |-> doc.chunks[i]], a)
             summaries == Append(doc.chunk_summaries, a.val)
         IN  doc' = IF ~a.ok THEN OpRaise(asked, OllamaError)
                    ELSE IF i < Len(doc.chunks)
                    THEN [asked EXCEPT !.chunk_summaries = summaries]
                    ELSE [asked EXCEPT !.chunk_summaries = summaries,
                                       !.pc = "consolidate"]
    /\ UNCHANGED opsFrame

\* One iteration of "for i, chunk in enumerate(chunks)" (lines 146-165)
\* and, after the last one, the test of line 168.
GenerateSummaryChunk ==
    /\ doc.op = "summary"
    /\ doc.pc = "chunk"
    /\ \E a \in SummaryAnswers :
         LET i == Len(doc.chunk_summaries) + 1
             asked == Ask(doc, [kind |-> "summary", part |-> i,
                                of |-> Len(doc.chunks),
                                body |-> doc.chunks[i]], a)
             summaries == Append(doc.chunk_summaries, a.val)
         IN  doc' = IF ~a.ok THEN OpRaise(asked, OllamaError)
                    ELSE IF i < Len(doc.chunks)
                    THEN [asked EXCEPT !.chunk_summaries = summaries]
                    ELSE IF Len(summaries) > 1
                    THEN [asked EXCEPT !.chunk_summaries = summaries,
                                       !.pc = "consolidate"]
                    ELSE [asked EXCEPT !.chunk_summaries = summaries,
                                       !.pc = "returned",
                                       !.result = summaries[1]]
    /\ UNCHANGED opsFrame

\* The consolidation call (lines 169-185).
GenerateSummaryConsolidate ==
    /\ doc.op = "summary"
    /\ doc.pc = "consolidate"
    /\ \E a \in SummaryAnswers :
         LET asked == Ask(doc, [kind |-> "consolidate", part |-> 0,
                                of |-> 0,
                                body |-> TaggedParts(doc.chunk_summaries)],
                          a)
         IN  doc' = IF ~a.ok THEN OpRaise(asked, OllamaError)
                    ELSE [asked EXCEPT !.pc = "returned", !.result = a.val]
    /\ UNCHANGED opsFrame

\* ---- extract_keywords ---------------------------------------------------

\* A list of keywords without its order, as list(set(...)) gives it: how
\* many times each keyword occurs.
BagOf(q) ==
    [x \in Range(q) |-> Cardinality({ k \in 1..Len(q) : q[k] = x })]

\* A slice that keeps the whole list.
Take_all(q, n) == q

\* q[:n]
Take(q, n) == SubSeq(q, 1, Min(Len(q), n))

\* The answers to a keyword request, each as the list that split(",") and
\* strip() make of it (keywords are numbers): a failure, a list that
\* repeats a keyword, lists of exactly and of more than KeywordLimit
\* keywords, and a list that adds two keywords to those.
KeywordAnswers ==
    { [ok |-> FALSE, val |-> << >>],
      [ok |-> TRUE, val |-> << 1, 2, 1 >>],
      [ok |-> TRUE, val |-> [k \in 1..KeywordLimit |-> k]],
      [ok |-> TRUE, val |-> [k \in 1..(KeywordLimit + 1) |-> k]],
      [ok |-> TRUE, val |-> << KeywordLimit + 1, KeywordLimit + 2 >>] }

\* The answers to the consolidation request: a failure, a selection of the
\* size asked for, one that is too long, and one that repeats a keyword.
ConsolidationAnswers ==
    { [ok |-> FALSE, val |-> << >>],
      [ok |-> TRUE, val |-> [k \in 1..(KeywordLimit - 5) |-> k]],
      [ok |-> TRUE, val |-> [k \in 1..(KeywordLimit + 2) |-> k]],
      [ok |-> TRUE, val |-> << 1, 1, 2 >>] }

KeywordsStart(t) ==
    [op |-> "keywords", pc |-> "begin", text |-> t, chunks |-> << >>,
     done |-> 0, all_keywords |-> {}, calls |-> << >>, answers |-> << >>,
     result |-> EmptyBag, error |-> ""]

\* The end of the loop: unique_keywords = list(set(all_keywords)) and the
\* test of line 125; without consolidation unique_keywords[:20] is
\* returned (line 137), whose order is the set's.
KeywordsAfterLoop(d) ==
    IF Cardinality(d.all_keywords) > KeywordLimit
    THEN [d EXCEPT !.pc = "consolidate"]
    ELSE [d EXCEPT !.pc = "returned", !.result = SetToBag(d.all_keywords)]

\* chunks = self._chunk_text(text); all_keywords = []
ExtractKeywordsBegin ==
    /\ doc.op = "keywords"
    /\ doc.pc = "begin"
    /\ LET chunks == chunk_text(doc.text) IN
       doc' = IF chunks = << >>
              THEN KeywordsAfterLoop([doc EXCEPT !.chunks = chunks])
              ELSE [doc EXCEPT !.chunks = chunks, !.pc = "chunk"]
    /\ UNCHANGED opsFrame

\* extract_keywords that consolidates from KeywordLimit candidates on.
ExtractKeywordsChunk_consolidateAtLimit ==
    /\ doc.op = "keywords"
    /\ doc.pc = "chunk"
    /\ \E a \in KeywordAnswers :
         LET i == doc.done + 1
             asked == Ask(doc, [kind |-> "keywords", body |-> doc.chunks[i]],
                          a)
             next == [asked EXCEPT !.done = i,
                                   !.all_keywords = @ \cup Range(a.val)]
         IN  doc' = IF ~a.ok THEN OpRaise(asked, OllamaError)
                    ELSE IF i < Len(doc.chunks) THEN next
                    ELSE IF Cardinality(next.all_keywords) >= KeywordLimit
                    THEN [next EXCEPT !.pc = "consolidate"]
                    ELSE KeywordsAfterLoop(next)
    /\ UNCHANGED opsFrame

\* One iteration of "for chunk in chunks" (lines 100-119) and, after the
\* last one, lines 122-125.
ExtractKeywordsChunk ==
    /\ doc.op = "keywords"
    /\ doc.pc = "chunk"
    /\ \E a \in KeywordAnswers :
         LET i == doc.done + 1
             asked == Ask(doc, [kind |-> "keywords", body |-> doc.chunks[i]],
                          a)
             next == [asked EXCEPT !.done = i,
                                   !.all_keywords = @ \cup Range(a.val)]
         IN  doc' = IF ~a.ok THEN OpRaise(asked, OllamaError)
                    ELSE IF i < Len(doc.chunks) THEN next
                    ELSE KeywordsAfterLoop(next)
    /\ UNCHANGED opsFrame

\* The consolidation call (lines 126-135) and the return of line 137: the
\* answer, split and stripped, replaces the list as it is.
ExtractKeywordsConsolidate ==
    /\ doc.op = "keywords"
    /\ doc.pc = "consolidate"
    /\ \E a \in ConsolidationAnswers :
         LET asked == Ask(doc, [kind |-> "kw_consolidate",
                                body |-> doc.all_keywords], a)
         IN  doc' = IF ~a.ok THEN OpRaise(asked, OllamaError)
                    ELSE [asked EXCEPT
                             !.pc = "returned",
                             !.result = BagOf(Take(a.val, KeywordLimit))]
    /\ UNCHANGED opsFrame

\* ---- the operations that read a list off the answer's lines -------------

\* Line k of an answer written after pattern p: a line of plain text, a
\* line with a quotation mark in it, or a blank line.
LineKind(p, k) ==
    CASE p = "plain" -> "plain"
      [] p = "quoted" -> "quoted"
      [] OTHER -> IF k % 3 = 0 THEN "blank"
                  ELSE IF k % 3 = 1 THEN "plain" ELSE "quoted"

\* The answers to a request for a list, each as response.split("\n"):
\* a failure, or up to MaxLines lines; line k carries, between its
\* bullet and blanks, the text k.
LineAnswers ==
    { [ok |-> FALSE, val |-> << >>] } \cup
    { [ok |-> TRUE,
       val |-> [k \in 1..n |-> [kind |-> LineKind(p, k), item |-> k]]] :
         n \in 0..MaxLines, p \in {"plain", "quoted", "mixed"} }

\* if line.strip()
IsNotBlank(line) == line.kind # "blank"

\* if line.strip() and ('"' in line or "'" in line)
HasQuote(line) == line.kind = "quoted"

\* [line.strip().lstrip(...) for line in lines]
Items(lines) == [k \in 1..Len(lines) |-> lines[k].item]

ListOps == {"topics", "insights", "quotes", "question_themes"}

ListStart(op) ==
    [op |-> op, pc |-> "begin", calls |-> << >>, answers |-> << >>,
     result |-> << >>, error |-> ""]

NonBlankLines(lines) == SelectSeq(lines, IsNotBlank)

QuoteLines(lines) == SelectSeq(lines, HasQuote)

\* One request, then the list read off the lines that pass (those with a
\* quotation mark for the quotes, the non-blank ones otherwise), cut to
\* limit.
ListCall(op, limit) ==
    /\ doc.op = op
    /\ doc.pc = "begin"
    /\ \E a \in LineAnswers :
         LET asked == Ask(doc, [kind |-> op], a)
             lines == IF op = "quotes" THEN QuoteLines(a.val)
                      ELSE NonBlankLines(a.val)
         IN  doc' = IF ~a.ok THEN OpRaise(asked, OllamaError)
                    ELSE [asked EXCEPT !.pc = "returned",
                                       !.result = Take(Items(lines), limit)]
    /\ UNCHANGED opsFrame

\* LongTextAnalyzer.extract_key_topics
ExtractKeyTopics == ListCall("topics", TopicLimit)

\* InterviewAnalyzer.extract_main_insights
ExtractMainInsights == ListCall("insights", InsightLimit)

\* InterviewAnalyzer.extract_highlight_quotes
ExtractHighlightQuotes == ListCall("quotes", QuoteLimit)

\* InterviewAnalyzer.analyze_question_themes
AnalyzeQuestionThemes ==
    ListCall("question_themes", ThemeLimit)

\* ---- analyze_sentiment -------------------------------------------------

UpperLetters ==
    << "A", "B", "C", "D", "E", "F", "G", "H", "I", "J", "K", "L", "M",
       "N", "O", "P", "Q", "R", "S", "T", "U", "V", "W", "X", "Y", "Z" >>

LowerLetters ==
    << "a", "b", "c", "d", "e", "f", "g", "h", "i", "j", "k", "l", "m",
       "n", "o", "p", "q", "r", "s", "t", "u", "v", "w", "x", "y", "z" >>

\* str.lower(), character by character.
LowerChar(c) ==
    IF \E k \in 1..Len(UpperLetters) : UpperLetters[k] = c
    THEN LowerLetters[CHOOSE k \in 1..Len(UpperLetters) : UpperLetters[k] = c]
    ELSE c

Lower(s) == [k \in 1..Len(s) |-> LowerChar(s[k])]

\* word in s
Contains(word, s) ==
    \E i \in 1..(Len(s) - Len(word) + 1) :
        SubSeq(s, i, i + Len(word) - 1) = word

\* The six words analyze_sentiment looks for, by their spelling.
LabelWords ==
    [positivo |-> << "p", "o", "s", "i", "t", "i", "v", "o" >>,
     positive |-> << "p", "o", "s", "i", "t", "i", "v", "e" >>,
     negativo |-> << "n", "e", "g", "a", "t", "i", "v", "o" >>,
     negative |-> << "n", "e", "g", "a", "t", "i", "v", "e" >>,
     mixto |-> << "m", "i", "x", "t", "o" >>,
     mixed |-> << "m", "i", "x", "e", "d" >>]

\* The words of LabelWords that occur in s.
WordsIn(s) == { w \in DOMAIN LabelWords : Contains(LabelWords[w], s) }

\* The raw answers to the sentiment request: each label word in some
\* case, answers with two words, and answers with none.
SentimentResponses ==
    { << "P", "o", "s", "i", "t", "i", "v", "e" >>,
      << "p", "o", "s", "i", "t", "i", "v", "o" >>,
      << "N", "E", "G", "A", "T", "I", "V", "E" >>,
      << "N", "e", "g", "a", "t", "i", "v", "o" >>,
      << "M", "i", "x", "e", "d" >>,
      << "m", "i", "x", "t", "o" >>,
      << "N", "e", "u", "t", "r", "a", "l" >>,
      << "n", "o", "t", " ", "n", "e", "g", "a", "t", "i", "v", "e", ",",
         " ", "p", "o", "s", "i", "t", "i", "v", "e" >>,
      << "m", "i", "x", "e", "d", ":", " ", "n", "e", "g", "a", "t", "i",
         "v", "e" >>,
      << "o", "k" >>,
      << >> }

SentimentAnswers ==
    { [ok |-> FALSE, val |-> << >>] }
        \cup { [ok |-> TRUE, val |-> r] : r \in SentimentResponses }

SentimentStart ==
    [op |-> "sentiment", pc |-> "begin", calls |-> << >>, answers |-> << >>,
     result |-> "", error |-> ""]

\* One request; sentiment = response.strip().lower(); the label.
AnalyzeSentiment ==
    /\ doc.op = "sentiment"
    /\ doc.pc = "begin"
    /\ \E a \in SentimentAnswers :
         LET asked == Ask(doc, [kind |-> "sentiment"], a) IN
         doc' = IF ~a.ok THEN OpRaise(asked, OllamaError)
                ELSE [asked EXCEPT
                         !.pc = "returned",
                         !.result = SentimentLabel(WordsIn(Lower(Strip(a.val))))]
    /\ UNCHANGED opsFrame

\* ---- identify_speakers -------------------------------------------------

Comma == ","

IsLineStart(s, i) == i = 1 \/ s[i - 1] = NL

\* The position of the first colon of s after position i, or 0.
FirstColon(s, i) ==
    IF \E j \in (i + 1)..Len(s) : s[j] = Colon
    THEN CHOOSE j \in (i + 1)..Len(s) :
             s[j] = Colon /\ \A k \in (i + 1)..(j - 1) : s[k] # Colon
    ELSE 0

\* ^([A-Z][^:]+): matches at position i: a line starts there with an
\* upper-case letter, and the next colon comes after at least one more
\* character ([^:] takes newlines too).
MatchAt(s, i) ==
    /\ IsLineStart(s, i)
    /\ s[i] \in Range(UpperLetters)
    /\ FirstColon(s, i) >= i + 2

\* The pattern without re.MULTILINE: ^ is the start of the text only.
RECURSIVE FindFrom_firstLineOnly(_, _)
FindFrom_firstLineOnly(s, i) ==
    IF i > 1 \/ i > Len(s) THEN << >>
    ELSE IF MatchAt(s, i) THEN << SubSeq(s, i, FirstColon(s, i) - 1) >>
    ELSE << >>

\* The matches of re.findall from position i on, left to right, each
\* search starting after the colon of the match before.
RECURSIVE FindFrom(_, _)
FindFrom(s, i) ==
    IF i > Len(s) THEN << >>
    ELSE IF MatchAt(s, i)
    THEN << SubSeq(s, i, FirstColon(s, i) - 1) >>
             \o FindFrom(s, FirstColon(s, i) + 1)
    ELSE FindFrom(s, i + 1)

\* re.findall(r"^([A-Z][^:]+):", text, re.MULTILINE)
FindSpeakers(s) == FindFrom(s, 1)

\* s.split(",")
RECURSIVE SplitComma(_)
SplitComma(s) ==
    IF \E i \in 1..Len(s) : s[i] = Comma
    THEN LET i == CHOOSE j \in 1..Len(s) :
                    s[j] = Comma /\ \A k \in 1..(j - 1) : s[k] # Comma
         IN  << SubSeq(s, 1, i - 1) >> \o SplitComma(Drop(s, i + 1))
    ELSE << s >>

IsNotEmpty(s) == s # << >>

\* [s.strip() for s in response.split(",") if s.strip()]
StrippedNames(response) ==
    LET pieces == SplitComma(response) IN
    SelectSeq([k \in 1..Len(pieces) |-> Strip(pieces[k])], IsNotEmpty)

NotApplicable == << "n", "o", "t", " ", "a", "p", "p", "l", "i", "c", "a", "b", "l", "e" >>

NoAplica == << "n", "o", " ", "a", "p", "l", "i", "c", "a" >>

\* The list the fallback makes of the answer (lines 274-277).
FallbackSpeakers(response) ==
    IF \/ Contains(NotApplicable, Lower(response))
       \/ Contains(NoAplica, Lower(response))
    THEN << >>
    ELSE Take(StrippedNames(response), SpeakerLimit)

\* The transcript of two labelled lines.
AliceBob ==
    << "A", "L", "I", "C", "E", ":", " ", "h", "e", "l", "l", "o", "\n",
       "B", "O", "B", ":", " ", "h", "i" >>

\* A transcript of n labelled lines with n different labels.
ManyLabels(n) ==
    Concat([k \in 1..n |-> << UpperLetters[k], "a", Colon, NL >>])

TranscriptChars == {"A", "B", "a", Colon, NL}

\* The documents identify_speakers is called on: every text up to
\* MaxTranscriptLen over TranscriptChars, the transcript of two labelled
\* lines, and one with one label more than SpeakerLimit.
Transcripts ==
    UNION { [1..n -> TranscriptChars] : n \in 0..MaxTranscriptLen }
        \cup { AliceBob, ManyLabels(SpeakerLimit + 1) }

\* The raw answers to the speaker request: not applicable in English and
\* in Spanish, lists of names (with empty pieces, with a repeated name,
\* with more than SpeakerLimit names), and the empty answer.
SpeakerResponses ==
    { << "N", "O", "T", " ", "A", "P", "P", "L", "I", "C", "A", "B", "L",
         "E" >>,
      << "N", "o", " ", "a", "p", "l", "i", "c", "a", "." >>,
      << "A", "n", "a", ",", " ", "B", "o" >>,
      << "A", "n", "a", ",", ",", "B", "o", ",", " " >>,
      << "A", "n", "a", ",", " ", "A", "n", "a" >>,
      << >>,
      << "A", ",", "B", ",", "C", ",", "D", ",", "E", ",", "F", ",", "G",
         ",", "H", ",", "I", ",", "J", ",", "K", ",", "L" >> }

SpeakerAnswers ==
    { [ok |-> FALSE, val |-> << >>] }
        \cup { [ok |-> TRUE, val |-> r] : r \in SpeakerResponses }

SpeakersStart(t) ==
    [op |-> "speakers", pc |-> "begin", text |-> t, calls |-> << >>,
     answers |-> << >>, result |-> EmptyBag, error |-> ""]

\* identify_speakers: the labels found in the text, as list(set(...))
\* gives them, or else one request and the list read off its answer.
IdentifySpeakers ==
    /\ doc.op = "speakers"
    /\ doc.pc = "begin"
    /\ LET speaker_patterns == FindSpeakers(doc.text) IN
       IF speaker_patterns # << >>
       THEN doc' = [doc EXCEPT !.pc = "returned",
                               !.result = SetToBag(Range(speaker_patterns))]
       ELSE \E a \in SpeakerAnswers :
              LET asked == Ask(doc, [kind |-> "speakers"], a) IN
              doc' = IF ~a.ok THEN OpRaise(asked, OllamaError)
                     ELSE [asked EXCEPT
                              !.pc = "returned",
                              !.result = BagOf(FallbackSpeakers(a.val))]
    /\ UNCHANGED opsFrame

\* ---- word count, reading time, duration estimate --------------------------

Max(a, b) == IF a >= b THEN a ELSE b

\* A document of n words, one blank between two words.
Words(n) ==
    IF n = 0 THEN << >>
    ELSE [k \in 1..(2 * n - 1) |-> IF k % 2 = 1 THEN "a" ELSE Space]

\* The documents measured: of 0 to MaxWords words, and those of OpTexts.
MeasuredTexts == { Words(n) : n \in 0..MaxWords } \cup OpTexts

MetricsStart(t) ==
    [op |-> "metrics", pc |-> "begin", text |-> t, calls |-> << >>,
     answers |-> << >>, word_count |-> -1, reading_time |-> -1,
     duration_estimate |-> -1, error |-> ""]

\* reading time without the floor of one minute.
ReadingTime_noFloor(word_count) == word_count \div 200

\* max(1, word_count // 200)
ReadingTime(word_count) == Max(1, word_count \div 200)

\* analyze_text, lines 284-285.
CountWords ==
    /\ doc.op = "metrics"
    /\ doc.pc = "begin"
    /\ LET word_count == WordCount(doc.text) IN
       doc' = [doc EXCEPT !.pc = "counted",
                          !.word_count = word_count,
                          !.reading_time = ReadingTime(word_count)]
    /\ UNCHANGED opsFrame

\* InterviewAnalyzer.estimate_interview_duration, on the same text.
EstimateInterviewDuration ==
    /\ doc.op = "metrics"
    /\ doc.pc = "counted"
    /\ LET word_count == WordCount(doc.text) IN
       doc' = [doc EXCEPT !.pc = "returned",
                          !.duration_estimate = Max(1, word_count \div 165)]
    /\ UNCHANGED opsFrame

\* ---- one call of one operation ------------------------------------------

OpInputs ==
    { SummaryStart(t) : t \in OpTexts }
        \cup { KeywordsStart(t) : t \in OpTexts }
        \cup { ListStart(op) : op \in ListOps }
        \cup { SentimentStart }
        \cup { SpeakersStart(t) : t \in Transcripts }
        \cup { MetricsStart(t) : t \in MeasuredTexts }

InitOps ==
    /\ text = << >>
    /\ cpc = "idle"
    /\ paragraphs = << >>
    /\ cstate = ChunkState0
    /\ doc \in OpInputs
    /\ BatchIdle
    /\ BatchStart

NextOps ==
    \/ GenerateSummaryBegin
    \/ GenerateSummaryChunk
    \/ GenerateSummaryConsolidate
    \/ ExtractKeywordsBegin
    \/ ExtractKeywordsChunk
    \/ ExtractKeywordsConsolidate
    \/ ExtractKeyTopics
    \/ ExtractMainInsights
    \/ ExtractHighlightQuotes
    \/ AnalyzeQuestionThemes
    \/ AnalyzeSentiment
    \/ IdentifySpeakers
    \/ CountWords
    \/ EstimateInterviewDuration

SpecOps == InitOps /\ [][NextOps]_vars

\* ------------------------------------------------------------------------
\* Properties of the analysis operations
\* ------------------------------------------------------------------------

\* C13: a document of C >= 1 chunks gets exactly C summary calls in chunk
\* order, call i carrying chunk i as part i of C, then exactly one
\* consolidation call if and only if C > 1, whose prompt lists the C
\* answers tagged in part order; the result is the last answer verbatim
\* (with C = 1, the answer of the only call).
C13_SummaryCalls ==
    (doc.op = "summary" /\ doc.pc = "returned") =>
        LET chunks == chunk_text(doc.text)
            C == Len(chunks)
        IN  /\ C >= 1
            /\ Len(doc.calls) = IF C > 1 THEN C + 1 ELSE 1
            /\ \A i \in 1..C :
                  doc.calls[i] = [kind |-> "summary", part |-> i, of |-> C,
                                  body |-> chunks[i]]
            /\ C > 1 =>
                  /\ doc.calls[C + 1].kind = "consolidate"
                  /\ doc.calls[C + 1].body =
                        [i \in 1..C |->
                            [part |-> i, summary |-> doc.answers[i].val]]
            /\ doc.result = doc.answers[Len(doc.answers)].val

\* Three chunks with different summaries, consolidated.
C13_Witness ==
    /\ doc.op = "summary"
    /\ doc.pc = "returned"
    /\ Len(doc.chunks) = 3
    /\ Len(doc.calls) = 4
    /\ doc.chunk_summaries = << "s1", "s2", "s1" >>

\* The keywords the chunk calls of a returned extract_keywords received.
ChunkKeywords ==
    UNION { Range(doc.answers[i].val) : i \in 1..Len(doc.chunks) }

\* C14: extract_keywords sends one request per chunk, in chunk order, and
\* then exactly one consolidation request if and only if the deduplicated
\* union of the chunk answers has more than KeywordLimit (20) keywords;
\* that request presents the whole union.
C14_KeywordCalls ==
    (doc.op = "keywords" /\ doc.pc = "returned") =>
        LET chunks == chunk_text(doc.text)
            C == Len(chunks)
        IN  /\ Len(doc.calls) =
                  IF Cardinality(ChunkKeywords) > KeywordLimit
                  THEN C + 1 ELSE C
            /\ \A i \in 1..C :
                  /\ doc.calls[i].kind = "keywords"
                  /\ doc.calls[i].body = chunks[i]
            /\ Len(doc.calls) > C =>
                  /\ doc.calls[C + 1].kind = "kw_consolidate"
                  /\ doc.calls[C + 1].body = ChunkKeywords

\* Two chunks whose keywords pass the limit only together, consolidated.
C14_Witness ==
    /\ doc.op = "keywords"
    /\ doc.pc = "returned"
    /\ Len(doc.chunks) = 2
    /\ Cardinality(Range(doc.answers[1].val)) = KeywordLimit
    /\ Cardinality(ChunkKeywords) = KeywordLimit + 2
    /\ Len(doc.calls) = 3

\* C15: whatever the sizes of the answers, a returned keyword list has at
\* most 20 entries, a topic list at most 8, an insight list at most 7, a
\* quote list at most 8 and a question-theme list at most 6.
C15_ListCaps ==
    doc.pc = "returned" =>
        /\ doc.op = "keywords" => BagCardinality(doc.result) <= 20
        /\ doc.op = "topics" => Len(doc.result) <= 8
        /\ doc.op = "insights" => Len(doc.result) <= 7
        /\ doc.op = "quotes" => Len(doc.result) <= 8
        /\ doc.op = "question_themes" => Len(doc.result) <= 6

\* A consolidation answer longer than asked for, cut to the cap.
C15_Witness ==
    /\ doc.op = "keywords"
    /\ doc.pc = "returned"
    /\ Len(doc.calls) = Len(doc.chunks) + 1
    /\ Len(doc.answers[Len(doc.answers)].val) > KeywordLimit
    /\ BagCardinality(doc.result) = KeywordLimit

\* C16: the keyword list extract_keywords returns is deduplicated, with
\* or without the consolidation call: no keyword occurs twice in it.
C16_KeywordsDeduplicated ==
    (doc.op = "keywords" /\ doc.pc = "returned") =>
        \A kw \in DOMAIN doc.result : doc.result[kw] <= 1

\* The answer analyze_sentiment received, lower-cased.
LoweredResponse == Lower(doc.answers[1].val)

PatternOccurs(s) ==
    \E i \in 1..Len(s) : \E j \in (i + 2)..Len(s) :
        /\ i = 1 \/ s[i - 1] = NL
        /\ s[i] \in Range(UpperLetters)
        /\ s[j] = Colon
        /\ \A k \in (i + 1)..(j - 1) : s[k] # Colon

\* C18: identify_speakers sends a request only if the label pattern
\* occurs nowhere in the document; when it occurs, the set of the labels
\* matched is returned without a request (ALICE and BOB for the lines
\* "ALICE: hello" / "BOB: hi"); in the fallback an answer that says
\* "not applicable" gives the empty list.
C18_SpeakersStructuralFirst ==
    (doc.op = "speakers" /\ doc.pc = "returned") =>
        /\ doc.calls # << >> <=> ~PatternOccurs(doc.text)
        /\ PatternOccurs(doc.text) =>
              /\ Len(doc.calls) = 0
              /\ doc.result = SetToBag(Range(FindSpeakers(doc.text)))
        /\ doc.text = AliceBob =>
              doc.result = SetToBag({ << "A", "L", "I", "C", "E" >>,
                                      << "B", "O", "B" >> })
        /\ (doc.calls # << >>
                /\ Contains(NotApplicable, Lower(doc.answers[1].val))) =>
              doc.result = EmptyBag

\* The pattern occurs on the second line only, one label twice.
C18_Witness ==
    /\ doc.op = "speakers"
    /\ doc.pc = "returned"
    /\ doc.text = << "a", NL, "A", "a", Colon >>
    /\ doc.calls = << >>
    /\ doc.result = SetToBag({ << "A", "a" >> })

\* C19: the speaker list identify_speakers returns never has more than
\* 10 entries, whatever the document and the answer.
C19_SpeakerCap ==
    (doc.op = "speakers" /\ doc.pc = "returned") =>
        BagCardinality(doc.result) <= 10

\* C20: reading_time is max(1, word_count // 200), with word_count the
\* number of whitespace-delimited tokens of the document, and the
\* duration estimate of an interview is max(1, word_count // 165) over
\* the same count; both are at least 1 and no request is sent for them.
C20_ReadingTimeAndDuration ==
    doc.op = "metrics" =>
        LET n == WordCount(doc.text) IN
        /\ doc.calls = << >>
        /\ doc.pc \in {"counted", "returned"} =>
              /\ doc.word_count = n
              /\ n >= 0
              /\ doc.reading_time >= 1
              /\ doc.reading_time = IF n < 200 THEN 1 ELSE n \div 200
        /\ doc.pc = "returned" =>
              /\ doc.duration_estimate >= 1
              /\ doc.duration_estimate = IF n < 165 THEN 1 ELSE n \div 165

\* A document of 400 words: two minutes to read, two minutes long.
C20_Witness ==
    /\ doc.op = "metrics"
    /\ doc.pc = "returned"
    /\ doc.text = Words(400)
    /\ doc.word_count = 400
    /\ doc.reading_time = 2
    /\ doc.duration_estimate = 2


\* ------------------------------------------------------------------------
\* analyze_text and analyze_interview on one document, request by request
\* ------------------------------------------------------------------------

\* The documents analysed: of one chunk without a speaker label, of one
\* chunk with a label, of two chunks, and of no chunk.
AnalysisTexts ==
    { << "a" >>,
      << "A", "a", Colon >>,
      << "a", "a", NL, NL, "a", "a" >>,
      << ".", ".", ".", ".", "." >> }

\* The answers to the requests of a whole analysis: for each kind of
\* request a failure and the answers that make its branches differ.
AnalysisAnswers(kind) ==
    CASE kind = "keywords" ->
           { a \in KeywordAnswers : Len(a.val) \in {0, 3, KeywordLimit + 1} }
      [] kind = "kw_consolidate" ->
           { a \in ConsolidationAnswers : Len(a.val) \in {0, KeywordLimit + 2} }
      [] kind \in {"summary", "sum_consolidate"} -> SummaryAnswers
      [] kind \in ListOps ->
           { a \in LineAnswers :
               \/ ~a.ok
               \/ Len(a.val) = MaxLines /\ a.val[1].kind = "quoted"
                     /\ a.val[3].kind = "quoted" }
      [] kind = "sentiment" ->
           { a \in SentimentAnswers :
               a.val \in { << >>, << "m", "i", "x", "t", "o" >> } }
      [] kind = "speakers" ->
           { a \in SpeakerAnswers :
               a.val \in { << >>, << "A", "n", "a", ",", " ", "B", "o" >> } }
      [] OTHER ->
           { [ok |-> FALSE, val |-> ""], [ok |-> TRUE, val |-> "text"] }

\* The fields of TextAnalysis before they are assigned.
NoAnalysis ==
    [keywords |-> EmptyBag, summary |-> "", key_topics |-> << >>,
     sentiment |-> "", word_count |-> -1, reading_time |-> -1,
     speakers |-> EmptyBag]

\* The fields analyze_interview adds, before they are assigned.
NoInterviewFields ==
    [interview_type |-> "", main_insights |-> << >>,
     quotes_highlights |-> << >>, questions_themes |-> << >>,
     interaction_style |-> "", duration_estimate |-> -1]

\* InterviewAnalysis(...) built from the topics of the specialised pass.
InterviewAnalysisOf_insightsAsTopics(base_analysis, extra) ==
    [keywords |-> base_analysis.keywords,
     summary |-> base_analysis.summary,
     key_topics |-> extra.main_insights,
     sentiment |-> base_analysis.sentiment,
     word_count |-> base_analysis.word_count,
     reading_time |-> base_analysis.reading_time,
     speakers |-> base_analysis.speakers,
     interview_type |-> extra.interview_type,
     main_insights |-> extra.main_insights,
     quotes_highlights |-> extra.quotes_highlights,
     questions_themes |-> extra.questions_themes,
     interaction_style |-> extra.interaction_style,
     duration_estimate |-> extra.duration_estimate]

\* InterviewAnalysis(...), lines 203-222 of interview_analyzer.py.
InterviewAnalysisOf(base_analysis, extra) ==
    [keywords |-> base_analysis.keywords,
     summary |-> base_analysis.summary,
     key_topics |-> base_analysis.key_topics,
     sentiment |-> base_analysis.sentiment,
     word_count |-> base_analysis.word_count,
     reading_time |-> base_analysis.reading_time,
     speakers |-> base_analysis.speakers,
     interview_type |-> extra.interview_type,
     main_insights |-> extra.main_insights,
     quotes_highlights |-> extra.quotes_highlights,
     questions_themes |-> extra.questions_themes,
     interaction_style |-> extra.interaction_style,
     duration_estimate |-> extra.duration_estimate]

\* TextAnalysis(...) as a result of the same shape (no interview fields).
TextAnalysisOf(locals) == InterviewAnalysisOf(locals, NoInterviewFields)

\* kind is "general" (analyze_text) or "interview" (analyze_interview).
\* locals are the variables of analyze_text, base is what it returned,
\* extra are the variables of analyze_interview.
AnalysisStart(kind, t) ==
    [op |-> "analyze", kind |-> kind, pc |-> "begin", text |-> t,
     chunks |-> << >>, done |-> 0, all_keywords |-> {},
     chunk_summaries |-> << >>, calls |-> << >>, answers |-> << >>,
     locals |-> NoAnalysis, base |-> NoAnalysis, base_calls |-> 0,
     extra |-> NoInterviewFields,
     result |-> TextAnalysisOf(NoAnalysis), error |-> ""]

\* analyze_text returns TextAnalysis(...): the result of a general
\* analysis, base_analysis for analyze_interview.
AnalyzeTextReturn(d) ==
    IF d.kind = "general"
    THEN [d EXCEPT !.pc = "returned", !.base = d.locals,
                   !.base_calls = Len(d.calls),
                   !.result = TextAnalysisOf(d.locals)]
    ELSE [d EXCEPT !.pc = "interview_type", !.base = d.locals,
                   !.base_calls = Len(d.calls)]

\* Lines 284-285, and the chunks extract_keywords and
\* generate_detailed_summary will both compute.  Without a chunk no
\* keyword or summary request is made and chunk_summaries[0] fails.
AnalyzeText_begin ==
    /\ doc.op = "analyze"
    /\ doc.pc = "begin"
    /\ LET word_count == WordCount(doc.text)
           chunks == chunk_text(doc.text)
           counted == [doc EXCEPT
                          !.chunks = chunks,
                          !.locals.word_count = word_count,
                          !.locals.reading_time = ReadingTime(word_count)]
       IN  doc' = IF chunks = << >> THEN OpRaise(counted, IndexError)
                  ELSE [counted EXCEPT !.pc = "keywords"]
    /\ UNCHANGED opsFrame

\* extract_keywords: the request for the next chunk.
AnalyzeText_keywords ==
    /\ doc.op = "analyze"
    /\ doc.pc = "keywords"
    /\ \E a \in AnalysisAnswers("keywords") :
         LET i == doc.done + 1
             asked == Ask(doc, [kind |-> "keywords", part |-> i], a)
             all == doc.all_keywords \cup Range(a.val)
         IN  doc' = IF ~a.ok THEN OpRaise(asked, OllamaError)
                    ELSE IF i < Len(doc.chunks)
                    THEN [asked EXCEPT !.done = i, !.all_keywords = all]
                    ELSE IF Cardinality(all) > KeywordLimit
                    THEN [asked EXCEPT !.done = 0, !.all_keywords = all,
                                       !.pc = "kw_consolidate"]
                    ELSE [asked EXCEPT !.done = 0, !.all_keywords = all,
                                       !.locals.keywords = SetToBag(all),
                                       !.pc = "summary"]
    /\ UNCHANGED opsFrame

\* extract_keywords: the consolidation request.
AnalyzeText_consolidateKeywords ==
    /\ doc.op = "analyze"
    /\ doc.pc = "kw_consolidate"
    /\ \E a \in AnalysisAnswers("kw_consolidate") :
         LET asked == Ask(doc, [kind |-> "kw_consolidate", part |-> 0], a)
         IN  doc' = IF ~a.ok THEN OpRaise(asked, OllamaError)
                    ELSE [asked EXCEPT
                             !.locals.keywords =
                                 BagOf(Take(a.val, KeywordLimit)),
                             !.pc = "summary"]
    /\ UNCHANGED opsFrame

\* generate_detailed_summary: the request for the next chunk.
AnalyzeText_summary ==
    /\ doc.op = "analyze"
    /\ doc.pc = "summary"
    /\ \E a \in AnalysisAnswers("summary") :
         LET i == doc.done + 1
             asked == Ask(doc, [kind |-> "summary", part |-> i], a)
             summaries == Append(doc.chunk_summaries, a.val)
         IN  doc' = IF ~a.ok THEN OpRaise(asked, OllamaError)
                    ELSE IF i < Len(doc.chunks)
                    THEN [asked EXCEPT !.done = i,
                                       !.chunk_summaries = summaries]
                    ELSE IF Len(summaries) > 1
                    THEN [asked EXCEPT !.done = 0,
                                       !.chunk_summaries = summaries,
                                       !.pc = "sum_consolidate"]
                    ELSE [asked EXCEPT !.done = 0,
                                       !.chunk_summaries = summaries,
                                       !.locals.summary = summaries[1],
                                       !.pc = "topics"]
    /\ UNCHANGED opsFrame

\* generate_detailed_summary: the consolidation request.
AnalyzeText_consolidateSummary ==
    /\ doc.op = "analyze"
    /\ doc.pc = "sum_consolidate"
    /\ \E a \in AnalysisAnswers("sum_consolidate") :
         LET asked == Ask(doc, [kind |-> "sum_consolidate", part |-> 0], a)
         IN  doc' = IF ~a.ok THEN OpRaise(asked, OllamaError)
                    ELSE [asked EXCEPT !.locals.summary = a.val,
                                       !.pc = "topics"]
    /\ UNCHANGED opsFrame

\* extract_key_topics
AnalyzeText_topics ==
    /\ doc.op = "analyze"
    /\ doc.pc = "topics"
    /\ \E a \in AnalysisAnswers("topics") :
         LET asked == Ask(doc, [kind |-> "topics", part |-> 0], a)
         IN  doc' = IF ~a.ok THEN OpRaise(asked, OllamaError)
                    ELSE [asked EXCEPT
                             !.locals.key_topics =
                                 Take(Items(NonBlankLines(a.val)), TopicLimit),
                             !.pc = "sentiment"]
    /\ UNCHANGED opsFrame

\* analyze_sentiment
AnalyzeText_sentiment ==
    /\ doc.op = "analyze"
    /\ doc.pc = "sentiment"
    /\ \E a \in AnalysisAnswers("sentiment") :
         LET asked == Ask(doc, [kind |-> "sentiment", part |-> 0], a)
         IN  doc' = IF ~a.ok THEN OpRaise(asked, OllamaError)
                    ELSE [asked EXCEPT
                             !.locals.sentiment =
                                 SentimentLabel(WordsIn(Lower(Strip(a.val)))),
                             !.pc = "speakers"]
    /\ UNCHANGED opsFrame

\* identify_speakers, and the return of analyze_text.
AnalyzeText_speakers ==
    /\ doc.op = "analyze"
    /\ doc.pc = "speakers"
    /\ LET speaker_patterns == FindSpeakers(doc.text) IN
       IF speaker_patterns # << >>
       THEN doc' = AnalyzeTextReturn(
                [doc EXCEPT !.locals.speakers =
                                SetToBag(Range(speaker_patterns))])
       ELSE \E a \in AnalysisAnswers("speakers") :
              LET asked == Ask(doc, [kind |-> "speakers", part |-> 0], a)
              IN  doc' = IF ~a.ok THEN OpRaise(asked, OllamaError)
                         ELSE AnalyzeTextReturn(
                                [asked EXCEPT !.locals.speakers =
                                     BagOf(FallbackSpeakers(a.val))])
    /\ UNCHANGED opsFrame

\* identify_interview_type
AnalyzeInterview_type ==
    /\ doc.op = "analyze"
    /\ doc.pc = "interview_type"
    /\ \E a \in AnalysisAnswers("interview_type") :
         LET asked == Ask(doc, [kind |-> "interview_type", part |-> 0], a)
         IN  doc' = IF ~a.ok THEN OpRaise(asked, OllamaError)
                    ELSE [asked EXCEPT !.extra.interview_type = a.val,
                                       !.pc = "insights"]
    /\ UNCHANGED opsFrame

\* extract_main_insights
AnalyzeInterview_insights ==
    /\ doc.op = "analyze"
    /\ doc.pc = "insights"
    /\ \E a \in AnalysisAnswers("insights") :
         LET asked == Ask(doc, [kind |-> "insights", part |-> 0], a)
         IN  doc' = IF ~a.ok THEN OpRaise(asked, OllamaError)
                    ELSE [asked EXCEPT
                             !.extra.main_insights =
                                 Take(Items(NonBlankLines(a.val)),
                                      InsightLimit),
                             !.pc = "quotes"]
    /\ UNCHANGED opsFrame

\* extract_highlight_quotes
AnalyzeInterview_quotes ==
    /\ doc.op = "analyze"
    /\ doc.pc = "quotes"
    /\ \E a \in AnalysisAnswers("quotes") :
         LET asked == Ask(doc, [kind |-> "quotes", part |-> 0], a)
         IN  doc' = IF ~a.ok THEN OpRaise(asked, OllamaError)
                    ELSE [asked EXCEPT
                             !.extra.quotes_highlights =
                                 Take(Items(QuoteLines(a.val)), QuoteLimit),
                             !.pc = "question_themes"]
    /\ UNCHANGED opsFrame

\* analyze_question_themes
AnalyzeInterview_themes ==
    /\ doc.op = "analyze"
    /\ doc.pc = "question_themes"
    /\ \E a \in AnalysisAnswers("question_themes") :
         LET asked == Ask(doc, [kind |-> "question_themes", part |-> 0], a)
         IN  doc' = IF ~a.ok THEN OpRaise(asked, OllamaError)
                    ELSE [asked EXCEPT
                             !.extra.questions_themes =
                                 Take(Items(NonBlankLines(a.val)),
                                      ThemeLimit),
                             !.pc = "interaction_style"]
    /\ UNCHANGED opsFrame

\* analyze_interaction_style, then estimate_interview_duration and the
\* return of analyze_interview.
AnalyzeInterview_style ==
    /\ doc.op = "analyze"
    /\ doc.pc = "interaction_style"
    /\ \E a \in AnalysisAnswers("interaction_style") :
         LET asked == Ask(doc, [kind |-> "interaction_style", part |-> 0], a)
             extra == [doc.extra EXCEPT
                          !.interaction_style = a.val,
                          !.duration_estimate =
                              Max(1, WordCount(doc.text) \div 165)]
         IN  doc' = IF ~a.ok THEN OpRaise(asked, OllamaError)
                    ELSE [asked EXCEPT
                             !.extra = extra,
                             !.result = InterviewAnalysisOf(doc.base, extra),
                             !.pc = "returned"]
    /\ UNCHANGED opsFrame

InitAnalysis ==
    /\ text = << >>
    /\ cpc = "idle"
    /\ paragraphs = << >>
    /\ cstate = ChunkState0
    /\ doc \in { AnalysisStart(kind, t) :
                   kind \in {"general", "interview"}, t \in AnalysisTexts }
    /\ BatchIdle
    /\ BatchStart

NextAnalysis ==
    \/ AnalyzeText_begin
    \/ AnalyzeText_keywords
    \/ AnalyzeText_consolidateKeywords
    \/ AnalyzeText_summary
    \/ AnalyzeText_consolidateSummary
    \/ AnalyzeText_topics
    \/ AnalyzeText_sentiment
    \/ AnalyzeText_speakers
    \/ AnalyzeInterview_type
    \/ AnalyzeInterview_insights
    \/ AnalyzeInterview_quotes
    \/ AnalyzeInterview_themes
    \/ AnalyzeInterview_style

SpecAnalysis == InitAnalysis /\ [][NextAnalysis]_vars


\* ------------------------------------------------------------------------
\* Properties of analyze_text and analyze_interview
\* ------------------------------------------------------------------------

\* The kinds of request the base analysis makes.
BaseKinds ==
    { "keywords", "kw_consolidate", "summary", "sum_consolidate", "topics",
      "sentiment", "speakers" }

\* The kinds of the requests k..Len(calls) of the analysis, in order.
KindsFrom(k) == [j \in 1..(Len(doc.calls) - k + 1) |-> doc.calls[k + j - 1].kind]

\* How many requests of the given kind the analysis has made.
CallsOfKind(kind) ==
    Cardinality({ k \in 1..Len(doc.calls) : doc.calls[k].kind = kind })

\* The specialised pass of analyze_interview is running or has returned.
InSpecialisedPass ==
    /\ doc.op = "analyze"
    /\ doc.kind = "interview"
    /\ doc.pc \in Range(InterviewOps) \cup {"returned"}

\* C21: analyze_interview runs the base analysis once, before the first
\* of its five own requests; its own requests are those five and no base
\* request; it leaves the base result as it was, and the seven base
\* fields of the interview result are the values of the base result.
C21_InterviewComposesBase ==
    InSpecialisedPass =>
        /\ \A k \in 1..doc.base_calls : doc.calls[k].kind \in BaseKinds
        /\ \A k \in (doc.base_calls + 1)..Len(doc.calls) :
              doc.calls[k].kind \notin BaseKinds
        /\ CallsOfKind("topics") = 1
        /\ CallsOfKind("sentiment") = 1
        /\ CallsOfKind("keywords") = Len(doc.chunks)
        /\ CallsOfKind("summary") = Len(doc.chunks)
        /\ doc.base = doc.locals
        /\ doc.pc = "returned" =>
              /\ KindsFrom(doc.base_calls + 1) = InterviewOps
              /\ doc.result.keywords = doc.base.keywords
              /\ doc.result.summary = doc.base.summary
              /\ doc.result.key_topics = doc.base.key_topics
              /\ doc.result.sentiment = doc.base.sentiment
              /\ doc.result.word_count = doc.base.word_count
              /\ doc.result.reading_time = doc.base.reading_time
              /\ doc.result.speakers = doc.base.speakers
              /\ doc.result.word_count = WordCount(doc.text)

\* An interview of two chunks analysed to the end; its insights are not
\* its topics.
C21_Witness ==
    /\ InSpecialisedPass
    /\ doc.pc = "returned"
    /\ Len(doc.chunks) = 2
    /\ doc.result.sentiment = "Mixed"
    /\ doc.result.main_insights # doc.result.key_topics
    /\ Len(doc.calls) = doc.base_calls + 5

\* n requests of one kind.
Rep(kind, n) == [j \in 1..n |-> kind]

\* The kinds of the requests of a whole analysis of C chunks, in order,
\* with kc keyword consolidations and sp speaker requests.
RequestOrder(C, kc, sp) ==
    Rep("keywords", C) \o Rep("kw_consolidate", kc) \o Rep("summary", C)
        \o Rep("sum_consolidate", IF C > 1 THEN 1 ELSE 0)
        \o << "topics", "sentiment" >> \o Rep("speakers", sp)
        \o (IF doc.kind = "interview" THEN InterviewOps ELSE << >>)

\* The analysis has returned or raised.
AnalysisOver ==
    /\ doc.op = "analyze"
    /\ doc.pc \in {"returned", "raised"}

\* Every request made got an answer.
NoCallFailed == \A k \in 1..Len(doc.answers) : doc.answers[k].ok

\* C25: an analysis in which no model call failed ends having made, for a
\* document of C chunks, C keyword requests, at most one keyword
\* consolidation, C summary requests, a summary consolidation exactly
\* when C > 1, one topic request, one sentiment request and at most one
\* speaker request, in that order (2C+2 to 2C+5 requests), and five more
\* for an interview.
C25_CallBudget ==
    (AnalysisOver /\ NoCallFailed) =>
        LET C == Len(doc.chunks)
            own == IF doc.kind = "interview" THEN 5 ELSE 0
        IN  /\ \E kc \in 0..1, sp \in 0..1 :
                  KindsFrom(1) = RequestOrder(C, kc, sp)
            /\ 2 * C + 2 + own <= Len(doc.calls)
            /\ Len(doc.calls) <= 2 * C + 5 + own


\* ------------------------------------------------------------------------
\* generate_batch_summary on a list of outcomes
\* ------------------------------------------------------------------------

\* The outcomes a list may hold: three successes that differ in their
\* counts and labels, and an error.
OutcomePool ==
    { [NoOutcome EXCEPT !.file = "a.txt", !.status = "success",
                        !.word_count = 3, !.keywords_count = 2,
                        !.sentiment = "Positive"],
      [NoOutcome EXCEPT !.file = "b.txt", !.status = "success",
                        !.word_count = 5, !.keywords_count = KeywordLimit,
                        !.sentiment = "Neutral"],
      [NoOutcome EXCEPT !.file = "c.txt", !.status = "success",
                        !.word_count = 0, !.keywords_count = 1,
                        !.sentiment = "Positive"],
      [NoOutcome EXCEPT !.file = "d.txt", !.status = "error",
                        !.error = OllamaError] }

OutcomeLists == UNION { [1..n -> OutcomePool] : n \in 0..MaxOutcomes }

IsSuccess(r) == r.status = "success"

IsError(r) == r.status = "error"

\* sum(r.get("word_count", 0) for r in rs)
RECURSIVE SumWordCount(_)
SumWordCount(rs) ==
    IF rs = << >> THEN 0 ELSE Head(rs).word_count + SumWordCount(Tail(rs))

\* sum(r.get("keywords_count", 0) for r in rs)
RECURSIVE SumKeywordsCount(_)
SumKeywordsCount(rs) ==
    IF rs = << >> THEN 0
    ELSE Head(rs).keywords_count + SumKeywordsCount(Tail(rs))

\* The quotient num / den, kept exact.
Fraction(num, den) == [num |-> num, den |-> den]

\* The histogram counted over every outcome, an error as "Unknown".
SentimentCounts_all(rs) ==
    BagOf([k \in 1..Len(rs) |->
              IF IsSuccess(rs[k]) THEN rs[k].sentiment ELSE "Unknown"])

\* sentiment_counts of lines 174-177, rs being the successful outcomes.
SentimentCounts(rs) ==
    BagOf([k \in 1..Len(SelectSeq(rs, IsSuccess)) |->
              SelectSeq(rs, IsSuccess)[k].sentiment])

ZeroDivisionError == "division by zero"

SummaryOfStart(rs) ==
    [op |-> "batch_summary", pc |-> "begin", results |-> rs,
     successful |-> << >>, failed |-> << >>, total_words |-> 0,
     avg_keywords |-> Fraction(0, 1), sentiment_counts |-> EmptyBag,
     total |-> 0, written |-> FALSE, error |-> ""]

\* generate_batch_summary: the aggregate of lines 164-177, then the
\* report, whose percentages divide by len(results), written to the file.
GenerateBatchSummary ==
    /\ doc.op = "batch_summary"
    /\ doc.pc = "begin"
    /\ LET successful == SelectSeq(doc.results, IsSuccess)
           failed == SelectSeq(doc.results, IsError)
           computed ==
               [doc EXCEPT
                   !.successful = successful,
                   !.failed = failed,
                   !.total_words = SumWordCount(successful),
                   !.avg_keywords =
                       IF successful # << >>
                       THEN Fraction(SumKeywordsCount(successful),
                                     Len(successful))
                       ELSE Fraction(0, 1),
                   !.sentiment_counts = SentimentCounts(doc.results),
                   !.total = Len(doc.results)]
       IN  doc' = IF Len(doc.results) = 0
                  THEN OpRaise(computed, ZeroDivisionError)
                  ELSE [computed EXCEPT !.pc = "returned", !.written = TRUE]
    /\ UNCHANGED opsFrame

InitSummary ==
    /\ text = << >>
    /\ cpc = "idle"
    /\ paragraphs = << >>
    /\ cstate = ChunkState0
    /\ doc \in { SummaryOfStart(rs) : rs \in OutcomeLists }
    /\ BatchIdle
    /\ BatchStart

NextSummary == GenerateBatchSummary

SpecSummary == InitSummary /\ [][NextSummary]_vars

\* The positions of the successful outcomes in the list given.
SuccessIndexes ==
    { k \in 1..Len(doc.results) : doc.results[k].status = "success" }

\* The sum of f over the set S of positions.
RECURSIVE SumAt(_, _)
SumAt(f, S) ==
    IF S = {} THEN 0
    ELSE LET k == CHOOSE x \in S : TRUE IN f[k] + SumAt(f, S \ {k})

\* C22: the aggregate of an outcome list: the total is the number of
\* outcomes, successes plus failures is the total, the total word count
\* is the sum of word_count over the successes only, the average keyword
\* count is the mean of keywords_count over the successes (0 without
\* any), and the histogram counts each label over the successes only, so
\* that its counts add up to the number of successes.
C22_BatchAggregate ==
    (doc.op = "batch_summary" /\ doc.pc # "begin") =>
        LET n == Cardinality(SuccessIndexes)
            words == [k \in 1..Len(doc.results) |-> doc.results[k].word_count]
            kws == [k \in 1..Len(doc.results) |->
                       doc.results[k].keywords_count]
        IN  /\ doc.total = Len(doc.results)
            /\ Len(doc.successful) = n
            /\ Len(doc.successful) + Len(doc.failed) = doc.total
            /\ doc.total_words = SumAt(words, SuccessIndexes)
            /\ IF n = 0 THEN doc.avg_keywords.num = 0
               ELSE doc.avg_keywords.num * n =
                        SumAt(kws, SuccessIndexes) * doc.avg_keywords.den
            /\ doc.avg_keywords.den > 0
            /\ BagCardinality(doc.sentiment_counts) = n
            /\ \A label \in DOMAIN doc.sentiment_counts :
                  doc.sentiment_counts[label] =
                      Cardinality({ k \in SuccessIndexes :
                                      doc.results[k].sentiment = label })

\* Two successes with the same label, one with another, and an error.
C22_Witness ==
    /\ doc.op = "batch_summary"
    /\ doc.pc = "returned"
    /\ Len(doc.successful) = 3
    /\ Len(doc.failed) = 1
    /\ doc.total_words = 8
    /\ doc.avg_keywords = Fraction(KeywordLimit + 3, 3)
    /\ doc.sentiment_counts = (("Positive" :> 2) @@ ("Neutral" :> 1))


\* ------------------------------------------------------------------------
\* Further properties of the batch driver
\* ------------------------------------------------------------------------

\* C23: a run that is not interrupted exits with 1 when the directory is
\* missing or no file is found, and with 0 otherwise, whatever the
\* statuses of its outcomes: a run whose documents fail ends with the
\* exit code of a run whose documents all succeed.
C23_ExitCodeIgnoresDocumentFailures ==
    (mainPc = "exit" /\ interrupted = "no") =>
        /\ (~dir_exists \/ listing = << >>) => exit_code = 1
        /\ (dir_exists /\ listing # << >>) => exit_code = 0
        /\ json_written =>
              /\ Len(results) = Len(files)
              /\ exit_code = 0

\* A run that ends with every document failed, one by a raised error.
C23_Witness ==
    /\ mainPc = "exit"
    /\ interrupted = "no"
    /\ json_written
    /\ Len(results) = 2
    /\ \A k \in 1..Len(results) : results[k].status = "error"
    /\ \E k \in 1..Len(results) : results[k].error = OllamaError
    /\ exit_code = 0


\* ------------------------------------------------------------------------
\* LongTextAnalyzer._call_ollama on one client, call after call
\* ------------------------------------------------------------------------

\* What the attributes of a new LongTextAnalyzer hold (lines 35-38), the
\* chunk size as this model bounds it.
NewClient ==
    [model_name |-> "llama3.1", ollama_url |-> "http://localhost:11434",
     max_chunk_size |-> max_chunk_size]

\* The ways requests.post can end: by a timeout, by a transport failure,
\* or with a response of some status, whose body is a JSON object with
\* the key "response" (holding text), one without it, or no JSON.
Exchanges ==
    { [end |-> e, status |-> 0, body |-> "none", text |-> << >>] :
        e \in {"timeout", "connection_error"} }
    \cup
    { [end |-> "response", status |-> st, body |-> b, text |-> t] :
        st \in {200, 204, 304, 404, 500},
        b \in {"response", "no_key", "not_json"},
        t \in { << Space, "o", "k", NL >> } }

\* response.raise_for_status(): HTTPError for a 4xx or 5xx status.
RaisesForStatus(x) == 400 <= x.status /\ x.status < 600

KeyError == "KeyError: 'response'"

JSONDecodeError == "JSONDecodeError"

\* What a call makes of the exchange x: the value returned or the error
\* raised.  RequestException and its subclasses (Timeout,
\* ConnectionError, HTTPError) are raised again as Exception("Error
\* connecting to Ollama: ..."); a body that is no JSON raises a decoding
\* error (a RequestException or a ValueError by the version of
\* requests), a missing key raises KeyError.
CallOutcomes(x) ==
    IF x.end \in {"timeout", "connection_error"} \/ RaisesForStatus(x)
    THEN { [returned |-> FALSE, value |-> << >>, error |-> OllamaError] }
    ELSE IF x.body = "not_json"
    THEN { [returned |-> FALSE, value |-> << >>, error |-> e] :
             e \in {OllamaError, JSONDecodeError} }
    ELSE IF x.body = "no_key"
    THEN { [returned |-> FALSE, value |-> << >>, error |-> KeyError] }
    ELSE { [returned |-> TRUE, value |-> Strip(x.text), error |-> ""] }

ClientStart ==
    [op |-> "client", client |-> NewClient, requests |-> << >>,
     history |-> << >>]

\* _call_ollama that posts the request a second time after a failure.
CallOllama_retry ==
    /\ doc.op = "client"
    /\ Len(doc.history) < MaxCalls
    /\ \E x \in Exchanges : \E o \in CallOutcomes(x) :
         doc' = [doc EXCEPT
                    !.requests = Append(@, IF o.returned THEN 1 ELSE 2),
                    !.history = Append(@, [exchange |-> x, outcome |-> o])]
    /\ UNCHANGED opsFrame

\* One call of _call_ollama: one requests.post, whose end decides what
\* the call returns or raises; self is only read.
CallOllama ==
    /\ doc.op = "client"
    /\ Len(doc.history) < MaxCalls
    /\ \E x \in Exchanges : \E o \in CallOutcomes(x) :
         doc' = [doc EXCEPT
                    !.requests = Append(@, 1),
                    !.history = Append(@, [exchange |-> x, outcome |-> o])]
    /\ UNCHANGED opsFrame

InitClient ==
    /\ text = << >>
    /\ cpc = "idle"
    /\ paragraphs = << >>
    /\ cstate = ChunkState0
    /\ doc = ClientStart
    /\ BatchIdle
    /\ BatchStart

NextClient == CallOllama

SpecClient == InitClient /\ [][NextClient]_vars

\* Call k sent one request and left the client as it was.
OneRequestNoState(k) ==
    /\ doc.requests[k] = 1
    /\ doc.client = NewClient

\* C24 as stated: a call that ends in a timeout, a transport failure or
\* a status other than 2xx raises the backend error and returns no
\* value; every call sends one request and leaves the client unchanged.
C24_Non2xxFails ==
    doc.op = "client" =>
        \A k \in 1..Len(doc.history) :
            LET x == doc.history[k].exchange
                o == doc.history[k].outcome
            IN  /\ OneRequestNoState(k)
                /\ (\/ x.end \in {"timeout", "connection_error"}
                    \/ x.status < 200 \/ x.status >= 300) =>
                      (~o.returned /\ o.error = OllamaError)

\* C24: a call that ends in a timeout, a transport failure or a 4xx or
\* 5xx status raises the backend error and returns no value; every call
\* sends one request and leaves model name, URL and chunk size unchanged.
C24_BackendFailureRaises ==
    doc.op = "client" =>
        \A k \in 1..Len(doc.history) :
            LET x == doc.history[k].exchange
                o == doc.history[k].outcome
            IN  /\ OneRequestNoState(k)
                /\ (\/ x.end \in {"timeout", "connection_error"}
                    \/ (x.status >= 400 /\ x.status < 600)) =>
                      (~o.returned /\ o.error = OllamaError)
                /\ o.returned => o.error = ""

\* A timeout, then a status 500, then an answer.
C24_Witness ==
    /\ doc.op = "client"
    /\ Len(doc.history) = 3
    /\ doc.history[1].exchange.end = "timeout"
    /\ doc.history[2].exchange.status = 500
    /\ doc.history[3].outcome.returned
    /\ doc.history[3].outcome.value = << "o", "k" >>


\* ------------------------------------------------------------------------
\* The batch run without an interrupt, under fair scheduling
\* ------------------------------------------------------------------------

\* A step of the main thread.
MainStep ==
    \/ CheckDirectory
    \/ FindFiles
    \/ Confirm
    \/ Submit
    \/ \E d \in 1..Len(FilePool) : Collect(d)
    \/ WriteSummary
    \/ WriteJson

\* A step of the task of file d once a worker has taken it: reading the
\* file, a request to the backend that returns or fails, writing the
\* report.
RunStep(d) ==
    /\ d \in DOMAIN task
    /\ task[d].pc \in RunningPcs
    /\ TaskStep(d)

NextUninterrupted ==
    \/ MainStep
    \/ \E d \in 1..Len(FilePool) : StartTask(d)
    \/ \E d \in 1..Len(FilePool) : RunStep(d)

\* The main thread runs, and a free worker takes the oldest queued work
\* item.  Whether a running task gets on is left to the backend.
SpecFair ==
    /\ Init
    /\ [][NextUninterrupted]_vars
    /\ WF_vars(MainStep)
    /\ \A d \in 1..MaxFiles : WF_vars(StartTask(d))

Dispatched(d) == d \in DOMAIN task /\ task[d].pc = "queued"

Completed(d) == d \in DOMAIN task /\ task[d].pc = "done"

\* C26: when every pending step of every task ends (each backend call
\* returns or fails), every dispatched task finishes and process_files
\* returns with one outcome per file; and when the steps of all tasks
\* but one end, then with two workers or more every other dispatched
\* task still finishes.
C26_TasksRunToCompletion ==
    /\ (\A d \in 1..MaxFiles : WF_vars(RunStep(d))) =>
          /\ \A d \in 1..MaxFiles : Dispatched(d) ~> Completed(d)
          /\ (mainPc = "submit") ~>
                (mainPc = "summary" /\ Len(results) = Len(files))
    /\ \A h \in 1..MaxFiles :
          (\A d \in (1..MaxFiles) \ {h} : WF_vars(RunStep(d))) =>
              \A d \in (1..MaxFiles) \ {h} :
                  (Dispatched(d) /\ max_workers >= 2) ~> Completed(d)

\* The first task is still waiting for the answer to its first request
\* while the second has finished and its outcome has been collected.
C26_Witness ==
    /\ max_workers >= 2
    /\ DOMAIN task = 1..2
    /\ task[1].pc = "keywords"
    /\ issued[1] = << >>
    /\ task[2].pc = "done"
    /\ task[2].yielded
    /\ Len(results) = 1
    /\ interrupted = "no"


\* ------------------------------------------------------------------------
\* Further properties of _chunk_text and of the batch driver
\* ------------------------------------------------------------------------

\* C27: no chunk that _chunk_text returns is empty or made of white space
\* only.
C27_NoEmptyChunk ==
    cpc = "done" =>
        \A k \in 1..Len(cstate.chunks) : Strip(cstate.chunks[k]) # << >>

\* The task of file d has read its text and found it not blank.
PassedEmptyCheck(d) ==
    /\ task[d].pc \notin {"unsubmitted", "queued", "read"}
    /\ Strip(files[d].text) # << >>
    /\ raised[d] # ReadError

\* C28: a document that passed the empty check has at least one chunk,
\* and its task never fails at the first chunk summary.
C28_FirstSummaryExists ==
    \A d \in DOMAIN task :
        PassedEmptyCheck(d) =>
            /\ NumChunks(files[d]) >= 1
            /\ raised[d] # IndexError

\* C29: in one run no report path is written for two different files.
C29_DistinctReports ==
    \A p \in reports : \A q \in reports : p[1] = q[1] => p[2] = q[2]

\* C30: when generate_batch_summary is called, and ever after, the list
\* of outcomes holds one outcome per file found and is not empty.
C30_SummaryNeverEmpty ==
    (mainPc = "summary" \/ summary_written) =>
        /\ Len(results) = Len(files)
        /\ Len(results) >= 1

\* The summary is due for a run of one file, whose analysis failed.
C30_Witness ==
    /\ mainPc = "summary"
    /\ Len(files) = 1
    /\ Len(results) = 1
    /\ results[1].status = "error"

=============================================================================
